---- MODULE Spec2Model ----
(***************************************************************************)
(* Model of the risk engine of hedge-anything: the statistics module       *)
(* (percentile, calculateStats), the hedge economics (calculateHedging)    *)
(* and the Monte Carlo simulator (runComparisonSimulation).                *)
(*                                                                         *)
(* Every value of TypeScript type `number` is an IEEE-754 binary64 double. *)
(* The engine's arithmetic is modelled with the rounding the language      *)
(* performs: a double is a sign, a 53-bit integer significand and a binary *)
(* exponent, and every +, -, * and / rounds to nearest, ties to even.      *)
(* Significands do not fit the model checker's integers, so they are kept  *)
(* as little-endian sequences of 15-bit limbs (the B* operators).          *)
(* Exponent overflow and subnormal numbers are not modelled: no value the  *)
(* input sets produce comes near either range.                             *)
(***************************************************************************)
EXTENDS Integers, Sequences, FiniteSets, TLC

\* -------------------------------------------------------------------------
\* Natural numbers of any size: sequences of limbs, least significant first,
\* without leading (most significant) zero limbs.
\* -------------------------------------------------------------------------

\* The element of a one-element set.  The({e : x \in {v}}) is e with x naming
\* the value of v, as a `const x = v` of the source does: v is evaluated once,
\* where a LET definition is evaluated again at each of its uses.
The(S) ==
    CHOOSE v \in S : TRUE

LimbBits == 14 + 1

Base == 2 ^ LimbBits

Limb(a, i) ==
    IF i <= Len(a) THEN a[i] ELSE 0

RECURSIVE BTrim(_)
BTrim(a) ==
    IF a = <<>> THEN a
    ELSE IF a[Len(a)] = 0 THEN BTrim(SubSeq(a, 1, Len(a) - 1))
    ELSE a

RECURSIVE BFromInt(_)
BFromInt(n) ==
    IF n = 0 THEN <<>> ELSE <<n % Base>> \o BFromInt(n \div Base)

RECURSIVE BToInt(_)
BToInt(a) ==
    IF a = <<>> THEN 0 ELSE a[1] + Base * BToInt(Tail(a))

RECURSIVE BAddC(_, _, _, _)
BAddC(a, b, i, c) ==
    IF i > Len(a) /\ i > Len(b)
    THEN (IF c = 0 THEN <<>> ELSE <<c>>)
    ELSE LET t == Limb(a, i) + Limb(b, i) + c
         IN  <<t % Base>> \o BAddC(a, b, i + 1, t \div Base)

BAdd(a, b) ==
    BTrim(BAddC(a, b, 1, 0))

\* a - b for a >= b
RECURSIVE BSubC(_, _, _, _)
BSubC(a, b, i, c) ==
    IF i > Len(a) THEN <<>>
    ELSE LET t == a[i] - Limb(b, i) - c
         IN  IF t < 0 THEN <<t + Base>> \o BSubC(a, b, i + 1, 1)
             ELSE <<t>> \o BSubC(a, b, i + 1, 0)

BSub(a, b) ==
    BTrim(BSubC(a, b, 1, 0))

\* a * d for one limb d
RECURSIVE BMulC(_, _, _, _)
BMulC(a, d, i, c) ==
    IF i > Len(a) THEN (IF c = 0 THEN <<>> ELSE <<c>>)
    ELSE LET t == a[i] * d + c
         IN  <<t % Base>> \o BMulC(a, d, i + 1, t \div Base)

RECURSIVE BMulR(_, _, _)
BMulR(a, b, i) ==
    IF i > Len(b) THEN <<>>
    ELSE BAddC(BMulC(a, b[i], 1, 0), <<0>> \o BMulR(a, b, i + 1), 1, 0)

BMul(a, b) ==
    BTrim(BMulR(a, b, 1))

RECURSIVE BCmpFrom(_, _, _)
BCmpFrom(a, b, i) ==
    IF i = 0 THEN 0
    ELSE IF a[i] < b[i] THEN -1
    ELSE IF a[i] > b[i] THEN 1
    ELSE BCmpFrom(a, b, i - 1)

\* -1, 0 or 1 as a < b, a = b, a > b
BCmp(a, b) ==
    IF Len(a) < Len(b) THEN -1
    ELSE IF Len(a) > Len(b) THEN 1
    ELSE BCmpFrom(a, b, Len(a))

RECURSIVE BitLenLimb(_)
BitLenLimb(d) ==
    IF d = 0 THEN 0 ELSE 1 + BitLenLimb(d \div 2)

BitLen(a) ==
    IF a = <<>> THEN 0 ELSE LimbBits * (Len(a) - 1) + BitLenLimb(a[Len(a)])

Zeros(n) ==
    [i \in 1..n |-> 0]

\* a * 2^k
BShl(a, k) ==
    IF a = <<>> THEN a
    ELSE BTrim(Zeros(k \div LimbBits) \o BMulC(a, 2 ^ (k % LimbBits), 1, 0))

\* floor(a / d) for one limb d, from the top limb down with remainder r
RECURSIVE BDivC(_, _, _, _)
BDivC(a, d, i, r) ==
    IF i = 0 THEN <<>>
    ELSE LET cur == r * Base + a[i]
         IN  BDivC(a, d, i - 1, cur % d) \o <<cur \div d>>

\* floor(a / 2^k)
BShr(a, k) ==
    LET drop == k \div LimbBits
        rest == IF drop >= Len(a) THEN <<>> ELSE SubSeq(a, drop + 1, Len(a))
    IN  BTrim(BDivC(rest, 2 ^ (k % LimbBits), Len(rest), 0))

BIsOdd(a) ==
    a # <<>> /\ a[1] % 2 = 1

\* n more quotient bits of the division by b, from the quotient and remainder
\* qr = <<q, r>> so far: <<quotient, remainder>>
RECURSIVE BDivBits(_, _, _)
BDivBits(qr, b, n) ==
    IF n = 0 THEN qr
    ELSE The({ IF BCmp(r2, b) >= 0
               THEN BDivBits(<<BAdd(q2, <<1>>), BSub(r2, b)>>, b, n - 1)
               ELSE BDivBits(<<q2, r2>>, b, n - 1)
             : r2 \in {BAdd(qr[2], qr[2])}, q2 \in {BAdd(qr[1], qr[1])} })

\* the 55 quotient bits a correctly rounded quotient needs, eleven at a time
BDiv55(qr, b) ==
    BDivBits(BDivBits(BDivBits(BDivBits(BDivBits(qr, b, 11), b, 11), b, 11), b, 11), b, 11)

\* the two bits of a at the positions 2j + 1 and 2j, none below position 0
BitPair(a, j) ==
    IF j < 0 THEN 0
    ELSE The({ IF t = <<>> THEN 0 ELSE t[1] % 4 : t \in {BShr(a, 2 * j)} })

\* n more bits of the square root of a, taking the bit pairs of a from pair j
\* down, from the root and remainder qr = <<q, r>> so far: <<root, remainder>>
RECURSIVE BSqrtBits(_, _, _, _)
BSqrtBits(qr, a, j, n) ==
    IF n = 0 THEN qr
    ELSE The({ IF BCmp(r2, t) >= 0
               THEN BSqrtBits(<<BAdd(q2, <<1>>), BSub(r2, t)>>, a, j - 1, n - 1)
               ELSE BSqrtBits(<<q2, r2>>, a, j - 1, n - 1)
             : r2 \in {BAdd(BShl(qr[2], 2), BFromInt(BitPair(a, j)))},
               t  \in {BAdd(BShl(qr[1], 2), <<1>>)},
               q2 \in {BShl(qr[1], 1)} })

\* the 55 bits of floor(sqrt(a * 2^56)) for a of 53 or 54 bits, eleven at a time
BSqrt55(a) ==
    BSqrtBits(BSqrtBits(BSqrtBits(BSqrtBits(BSqrtBits(<<<<>>, <<>>>>,
        a, 26, 11), a, 15, 11), a, 4, 11), a, -7, 11), a, -18, 11)

\* -------------------------------------------------------------------------
\* Doubles.  k = "fin": (-1)^s * m * 2^e with m = 0 (e = 0) or 2^52 <= m < 2^53;
\* k = "inf": signed infinity; k = "nan": NaN; k = "undef": the value
\* `undefined` (an array read out of range), which arithmetic turns into NaN.
\* -------------------------------------------------------------------------

Precision == 52 + 1

NaN == [k |-> "nan", s |-> 0, m |-> <<>>, e |-> 0]

Undefined == [k |-> "undef", s |-> 0, m |-> <<>>, e |-> 0]

Inf(s) == [k |-> "inf", s |-> s, m |-> <<>>, e |-> 0]

Zero(s) == [k |-> "fin", s |-> s, m |-> <<>>, e |-> 0]

IsNaN(x) == x.k \notin {"fin", "inf"}

IsInf(x) == x.k = "inf"

IsZero(x) == x.k = "fin" /\ x.m = <<>>

IsFinite(x) == x.k = "fin"

Xor(s, t) == IF s = t THEN 0 ELSE 1

\* The double nearest to (-1)^s * (M + f) * 2^e, ties to even, where f = 0 or,
\* with `sticky`, 0 < f < 1 (then M has more than Precision bits).
RoundUp(q, c, sticky) ==
    c > 0 \/ (c = 0 /\ (sticky \/ BIsOdd(q)))

Round(s, M, e, sticky) ==
    The({ IF L = 0 THEN Zero(s)
          ELSE IF L <= Precision
          THEN [k |-> "fin", s |-> s, m |-> BShl(M, Precision - L), e |-> e - (Precision - L)]
          ELSE The({
                 The({ IF BitLen(q2) > Precision
                       THEN [k |-> "fin", s |-> s, m |-> BShr(q2, 1), e |-> e + sh + 1]
                       ELSE [k |-> "fin", s |-> s, m |-> q2, e |-> e + sh]
                     : q2 \in {IF RoundUp(q, BCmp(BSub(M, BShl(q, sh)), BShl(<<1>>, sh - 1)),
                                          sticky)
                               THEN BAdd(q, <<1>>) ELSE q} })
               : sh \in {L - Precision}, q \in {BShr(M, L - Precision)} })
        : L \in {BitLen(M)} })

\* the double of an integer literal or loop counter
FInt(n) ==
    IF n < 0 THEN Round(1, BFromInt(-n), 0, FALSE) ELSE Round(0, BFromInt(n), 0, FALSE)

FNeg(x) ==
    IF IsNaN(x) THEN NaN ELSE [x EXCEPT !.s = 1 - x.s]

FAbs(x) ==
    IF IsNaN(x) THEN NaN ELSE [x EXCEPT !.s = 0]

\* x + y of two finite non-zero doubles with x.e >= y.e
AddAligned(x, y) ==
    IF x.e - y.e > Precision + 2 THEN x
    ELSE The({
           The({ IF x.s # y.s /\ c = 0 THEN Zero(0)
                 ELSE Round(IF x.s = y.s \/ c > 0 THEN x.s ELSE y.s,
                            IF x.s = y.s THEN BAdd(A, y.m)
                            ELSE BSub(IF c > 0 THEN A ELSE y.m, IF c > 0 THEN y.m ELSE A),
                            y.e, FALSE)
               : c \in {BCmp(A, y.m)} })
         : A \in {BShl(x.m, x.e - y.e)} })

FAdd(x, y) ==
    IF IsNaN(x) \/ IsNaN(y) THEN NaN
    ELSE IF IsInf(x) THEN (IF IsInf(y) /\ x.s # y.s THEN NaN ELSE x)
    ELSE IF IsInf(y) THEN y
    ELSE IF IsZero(x) THEN (IF IsZero(y) THEN Zero(IF x.s = y.s THEN x.s ELSE 0) ELSE y)
    ELSE IF IsZero(y) THEN x
    ELSE AddAligned(IF x.e >= y.e THEN x ELSE y, IF x.e >= y.e THEN y ELSE x)

FSub(x, y) ==
    FAdd(x, FNeg(y))

FMul(x, y) ==
    IF IsNaN(x) \/ IsNaN(y) THEN NaN
    ELSE IF IsInf(x) \/ IsInf(y)
    THEN (IF IsZero(x) \/ IsZero(y) THEN NaN ELSE Inf(Xor(x.s, y.s)))
    ELSE IF IsZero(x) \/ IsZero(y) THEN Zero(Xor(x.s, y.s))
    ELSE Round(Xor(x.s, y.s), BMul(x.m, y.m), x.e + y.e, FALSE)

FDiv(x, y) ==
    IF IsNaN(x) \/ IsNaN(y) THEN NaN
    ELSE IF IsInf(x) THEN (IF IsInf(y) THEN NaN ELSE Inf(Xor(x.s, y.s)))
    ELSE IF IsInf(y) THEN Zero(Xor(x.s, y.s))
    ELSE IF IsZero(y) THEN (IF IsZero(x) THEN NaN ELSE Inf(Xor(x.s, y.s)))
    ELSE IF IsZero(x) THEN Zero(Xor(x.s, y.s))
    ELSE The({ Round(Xor(x.s, y.s), qr[1], x.e - y.e - (Precision + 2), qr[2] # <<>>)
             : qr \in {BDiv55(IF BCmp(x.m, y.m) >= 0 THEN <<<<1>>, BSub(x.m, y.m)>>
                                ELSE <<<<>>, x.m>>, y.m)} })

\* -1, 0, 1 as |x| < |y|, |x| = |y|, |x| > |y|, for finite x and y
CmpMag(x, y) ==
    IF IsZero(x) THEN (IF IsZero(y) THEN 0 ELSE -1)
    ELSE IF IsZero(y) THEN 1
    ELSE IF x.e < y.e THEN -1
    ELSE IF x.e > y.e THEN 1
    ELSE BCmp(x.m, y.m)

\* -1, 0, 1 as x < y, x = y, x > y, for x and y not NaN
Cmp(x, y) ==
    IF IsInf(x) \/ IsInf(y)
    THEN (IF IsInf(x) /\ IsInf(y) THEN (IF x.s = y.s THEN 0 ELSE IF x.s = 1 THEN -1 ELSE 1)
          ELSE IF IsInf(x) THEN (IF x.s = 1 THEN -1 ELSE 1)
          ELSE (IF y.s = 1 THEN 1 ELSE -1))
    ELSE IF IsZero(x) /\ IsZero(y) THEN 0
    ELSE IF x.s # y.s THEN (IF x.s = 1 THEN -1 ELSE 1)
    ELSE IF x.s = 0 THEN CmpMag(x, y) ELSE CmpMag(y, x)

\* the comparison operators <, <=, >, >= and === on numbers
FLt(x, y) == ~IsNaN(x) /\ ~IsNaN(y) /\ Cmp(x, y) < 0

FLe(x, y) == ~IsNaN(x) /\ ~IsNaN(y) /\ Cmp(x, y) <= 0

FGt(x, y) == FLt(y, x)

FGe(x, y) == FLe(y, x)

FEq(x, y) == ~IsNaN(x) /\ ~IsNaN(y) /\ Cmp(x, y) = 0

\* Math.floor
FFloor(x) ==
    IF IsNaN(x) THEN NaN
    ELSE IF IsInf(x) \/ IsZero(x) \/ x.e >= 0 THEN x
    ELSE IF x.e <= -Precision THEN (IF x.s = 0 THEN Zero(0) ELSE FInt(-1))
    ELSE The({ IF x.s = 0 THEN Round(0, q, 0, FALSE)
               ELSE IF BShl(q, -x.e) = x.m THEN Round(1, q, 0, FALSE)
               ELSE Round(1, BAdd(q, <<1>>), 0, FALSE)
             : q \in {BShr(x.m, -x.e)} })

\* Math.ceil
FCeil(x) ==
    FNeg(FFloor(FNeg(x)))

\* Math.sqrt
FSqrt(x) ==
    IF IsNaN(x) THEN NaN
    ELSE IF IsZero(x) THEN x
    ELSE IF x.s = 1 THEN NaN
    ELSE IF IsInf(x) THEN x
    ELSE The({ Round(0, qr[1], (x.e - (x.e % 2) - (Precision + 3)) \div 2, qr[2] # <<>>)
             : qr \in {BSqrt55(IF x.e % 2 = 1 THEN BShl(x.m, 1) ELSE x.m)} })

\* Math.max of two numbers
FMax(x, y) ==
    IF IsNaN(x) \/ IsNaN(y) THEN NaN
    ELSE IF FGt(x, y) THEN x
    ELSE IF FGt(y, x) THEN y
    ELSE IF IsZero(x) /\ x.s = 1 THEN y ELSE x

\* Math.min of two numbers
FMin(x, y) ==
    IF IsNaN(x) \/ IsNaN(y) THEN NaN
    ELSE IF FLt(x, y) THEN x
    ELSE IF FLt(y, x) THEN y
    ELSE IF IsZero(x) /\ x.s = 0 THEN y ELSE x

\* the integer a double holds, for an integer-valued double of small magnitude
FToInt(x) ==
    IF IsZero(x) THEN 0
    ELSE The({ IF x.s = 0 THEN n ELSE -n
             : n \in {IF x.e >= 0 THEN BToInt(BShl(x.m, x.e)) ELSE BToInt(BShr(x.m, -x.e))} })

\* the double a decimal literal n/d denotes (n and d are exact, the quotient rounds)
Dec(n, d) ==
    FDiv(FInt(n), FInt(d))

\* -------------------------------------------------------------------------
\* lib/stats.ts
\* -------------------------------------------------------------------------

\* the comparator (a, b) => a - b
SortCompare(a, b) ==
    FSub(a, b)

\* Array.prototype.sort asks the comparator for an order and tests order < 0;
\* an order of NaN counts as 0, so no element is less than a NaN and a NaN is
\* less than no element
Less(a, b) ==
    FLt(SortCompare(a, b), Zero(0))

\* Copy(source, srcPos, target, dstPos, length): the array target with length
\* elements of source, from srcPos on, put from dstPos on (positions from 0)
Copy(source, srcPos, target, dstPos, length) ==
    SubSeq(target, 1, dstPos) \o SubSeq(source, srcPos + 1, srcPos + length)
        \o SubSeq(target, dstPos + length + 1, Len(target))

\* a descending run is reversed in place
Reverse(s) ==
    [j \in 1..Len(s) |-> s[Len(s) + 1 - j]]

\* ComputeMinRunLength: n itself below 64, else the leading six bits of n, one
\* more when a lower bit is set
RECURSIVE ComputeMinRunLength(_, _)
ComputeMinRunLength(n, r) ==
    IF n >= 64
    THEN ComputeMinRunLength(n \div 2, IF n % 2 = 1 THEN 1 ELSE r)
    ELSE n + r

\* the loop of CountAndMakeRun: the first position idx of lo .. high - 1 whose
\* element ends the run (in a descending run it is not less than the one before
\* it, in an ascending run it is), high if there is none
RECURSIVE RunBreak(_, _, _, _)
RunBreak(w, descending, lo, high) ==
    IF lo >= high THEN high
    ELSE IF lo + 1 = high
    THEN (IF Less(w[lo + 1], w[lo]) = descending THEN high ELSE lo)
    ELSE The({ IF left < (lo + high) \div 2 THEN left
               ELSE RunBreak(w, descending, (lo + high) \div 2, high)
             : left \in {RunBreak(w, descending, lo, (lo + high) \div 2)} })

\* CountAndMakeRun(low, high): the length of the run that starts at low, and
\* the array with that run reversed when it descends
CountAndMakeRun(w, low, high) ==
    IF low + 1 = high THEN [w |-> w, length |-> 1]
    ELSE The({ The({ [w      |-> IF descending
                                 THEN Copy(Reverse(SubSeq(w, low + 1, low + length)), 0,
                                           w, low, length)
                                 ELSE w,
                     length |-> length]
                   : length \in {RunBreak(w, descending, low + 2, high) - low} })
             : descending \in {Less(w[low + 2], w[low + 1])} })

\* the binary search of the insertion: the position pivot is put at, sought
\* in left .. right
RECURSIVE BinarySearch(_, _, _, _)
BinarySearch(s, pivot, left, right) ==
    IF left < right
    THEN IF Less(pivot, s[left + (right - left) \div 2 + 1])
         THEN BinarySearch(s, pivot, left, left + (right - left) \div 2)
         ELSE BinarySearch(s, pivot, left + (right - left) \div 2 + 1, right)
    ELSE left

\* BinaryInsertionSort(low, start, high): the elements low .. start - 1 of w
\* are in order; each element of start .. high - 1, from the left to the right,
\* is put into its place among the ones from low on before it (the loop over
\* start .. high - 1 is taken as its first half followed by its second half)
RECURSIVE BinaryInsertionSort(_, _, _, _)
BinaryInsertionSort(w, low, start, high) ==
    CASE start >= high -> w
      [] start + 1 = high ->
           The({ SubSeq(w, 1, left) \o <<w[start + 1]>> \o SubSeq(w, left + 1, start)
                     \o SubSeq(w, start + 2, Len(w))
               : left \in {BinarySearch(w, w[start + 1], low, start)} })
      [] OTHER ->
           The({ BinaryInsertionSort(half, low, (start + high) \div 2, high)
               : half \in {BinaryInsertionSort(w, low, start, (start + high) \div 2)} })

\* the comparison of the galloping searches with the element idx: GallopRight
\* (right) asks whether key is less than the element, GallopLeft whether the
\* element is less than key
GallopLess(array, key, idx, right) ==
    Less(IF right THEN key ELSE array[idx + 1], IF right THEN array[idx + 1] ELSE key)

\* the galloping loop from the element at, with the offsets 1, 3, 7, ...:
\* rightwards (dir = 1) GallopLeft goes on while the element is less than key
\* and GallopRight while key is not less than the element; leftwards
\* (dir = -1) GallopLeft goes on while the element is not less than key and
\* GallopRight while key is less than the element
RECURSIVE GallopOffsets(_, _, _, _, _, _, _, _)
GallopOffsets(array, key, at, dir, maxOfs, lastOfs, offset, right) ==
    IF /\ offset < maxOfs
       /\ GallopLess(array, key, at + dir * offset, right) = ((dir = 1) # right)
    THEN GallopOffsets(array, key, at, dir, maxOfs, offset, 2 * offset + 1, right)
    ELSE [lastOfs |-> lastOfs, offset |-> IF offset > maxOfs THEN maxOfs ELSE offset]

\* the binary search that ends a galloping search: when the comparison holds
\* GallopRight goes on to the left of the element and GallopLeft to its right
RECURSIVE GallopSearch(_, _, _, _, _, _)
GallopSearch(array, key, base, lastOfs, offset, right) ==
    IF lastOfs < offset
    THEN IF GallopLess(array, key, base + lastOfs + (offset - lastOfs) \div 2, right) = right
         THEN GallopSearch(array, key, base,
                           lastOfs, lastOfs + (offset - lastOfs) \div 2, right)
         ELSE GallopSearch(array, key, base,
                           lastOfs + (offset - lastOfs) \div 2 + 1, offset, right)
    ELSE offset

\* a galloping search of key among the length elements of array from base on,
\* from the element hint: leftwards (dir = -1) or rightwards (dir = 1) as the
\* comparison with the element hint tells, then by binary search between the
\* last two offsets
Gallop(array, key, base, length, hint, right) ==
    The({
      The({ GallopSearch(array, key, base,
                         IF dir = 1 THEN o.lastOfs + hint + 1 ELSE hint - o.offset + 1,
                         IF dir = 1 THEN o.offset + hint ELSE hint - o.lastOfs,
                         right)
          : o \in {GallopOffsets(array, key, base + hint, dir,
                                 IF dir = 1 THEN length - hint ELSE hint + 1,
                                 0, 1, right)} })
    : dir \in {IF GallopLess(array, key, base + hint, right) = right THEN -1 ELSE 1} })

\* GallopLeft: where key goes among the length elements of array from base on,
\* before the elements it is not greater than, sought from the element hint
GallopLeft(array, key, base, length, hint) ==
    Gallop(array, key, base, length, hint, FALSE)

\* GallopRight: where key goes among the length elements of array from base
\* on, after the elements it is not less than, sought from the element hint
GallopRight(array, key, base, length, hint) ==
    Gallop(array, key, base, length, hint, TRUE)

\* one step of MergeLow, which merges the run A, copied to temp, with the run
\* B after it from the left. pc "begin": the first element of B is moved;
\* "one": one turn of the loop that takes one element at a time; "gallopA" and
\* "gallopB": the two halves of one turn of the galloping loop; "done": the
\* labels Succeed and CopyB have put the rest in place
MergeLowStep(s) ==
    LET Succeed(t) ==
            [t EXCEPT !.pc = "done",
                      !.w = IF t.lengthA > 0
                            THEN Copy(t.temp, t.cursorTemp, t.w, t.dest, t.lengthA)
                            ELSE t.w]
        CopyB(t) ==
            [t EXCEPT !.pc = "done",
                      !.w = [Copy(t.w, t.cursor, t.w, t.dest, t.lengthB)
                             EXCEPT ![t.dest + t.lengthB + 1] = t.temp[t.cursorTemp + 1]]]
        TakeB(t) ==
            [t EXCEPT !.w[t.dest + 1] = t.w[t.cursor + 1],
                      !.dest = @ + 1, !.cursor = @ + 1, !.lengthB = @ - 1]
        TakeA(t) ==
            [t EXCEPT !.w[t.dest + 1] = t.temp[t.cursorTemp + 1],
                      !.dest = @ + 1, !.cursorTemp = @ + 1, !.lengthA = @ - 1]
        Galloping(t) == [t EXCEPT !.pc = "gallopA", !.minGallop = @ + 1]
        Again(t) ==
            IF t.nofWinsA >= 7 \/ t.nofWinsB >= 7
            THEN [t EXCEPT !.pc = "gallopA"]
            ELSE [t EXCEPT !.pc = "one", !.minGallop = @ + 1,
                           !.nofWinsA = 0, !.nofWinsB = 0]
    IN  CASE s.pc = "begin" ->
               The({ IF t.lengthB = 0 THEN Succeed(t)
                     ELSE IF t.lengthA = 1 THEN CopyB(t)
                     ELSE [t EXCEPT !.pc = "one"]
                   : t \in {TakeB(s)} })
          [] s.pc = "one" ->
               IF Less(s.w[s.cursor + 1], s.temp[s.cursorTemp + 1])
               THEN The({ IF t.lengthB = 0 THEN Succeed(t)
                          ELSE IF t.nofWinsB >= t.minGallop THEN Galloping(t)
                          ELSE t
                        : t \in {[TakeB(s) EXCEPT !.nofWinsB = @ + 1, !.nofWinsA = 0]} })
               ELSE The({ IF t.lengthA = 1 THEN CopyB(t)
                          ELSE IF t.nofWinsA >= t.minGallop THEN Galloping(t)
                          ELSE t
                        : t \in {[TakeA(s) EXCEPT !.nofWinsA = @ + 1, !.nofWinsB = 0]} })
          [] s.pc = "gallopA" ->
               The({ The({ IF k > 0 /\ t.lengthA = 1 THEN CopyB(t)
                           ELSE IF k > 0 /\ t.lengthA = 0 THEN Succeed(t)
                           ELSE The({ IF u.lengthB = 0 THEN Succeed(u)
                                      ELSE [u EXCEPT !.pc = "gallopB"]
                                    : u \in {TakeB(t)} })
                         : t \in {[s EXCEPT
                                     !.minGallop = IF @ - 1 > 1 THEN @ - 1 ELSE 1,
                                     !.nofWinsA = k,
                                     !.w = IF k > 0
                                           THEN Copy(s.temp, s.cursorTemp, s.w, s.dest, k)
                                           ELSE @,
                                     !.dest = @ + k,
                                     !.cursorTemp = @ + k,
                                     !.lengthA = @ - k]} })
                   : k \in {GallopRight(s.temp, s.w[s.cursor + 1], s.cursorTemp,
                                        s.lengthA, 0)} })
          [] s.pc = "gallopB" ->
               The({ The({ IF k > 0 /\ t.lengthB = 0 THEN Succeed(t)
                           ELSE The({ IF u.lengthA = 1 THEN CopyB(u) ELSE Again(u)
                                    : u \in {TakeA(t)} })
                         : t \in {[s EXCEPT
                                     !.nofWinsB = k,
                                     !.w = IF k > 0
                                           THEN Copy(s.w, s.cursor, s.w, s.dest, k)
                                           ELSE @,
                                     !.dest = @ + k,
                                     !.cursor = @ + k,
                                     !.lengthB = @ - k]} })
                   : k \in {GallopLeft(s.w, s.temp[s.cursorTemp + 1], s.cursor,
                                       s.lengthB, 0)} })
          [] OTHER -> s

\* one step of MergeHigh, which merges the run A with the run B after it,
\* copied to temp, from the right; the steps are those of MergeLowStep, the
\* labels Succeed and CopyA
MergeHighStep(s) ==
    LET Succeed(t) ==
            [t EXCEPT !.pc = "done",
                      !.w = IF t.lengthB > 0
                            THEN Copy(t.temp, 0, t.w, t.dest - (t.lengthB - 1), t.lengthB)
                            ELSE t.w]
        CopyA(t) ==
            [t EXCEPT !.pc = "done",
                      !.w = [Copy(t.w, t.cursor - t.lengthA + 1, t.w,
                                  t.dest - t.lengthA + 1, t.lengthA)
                             EXCEPT ![t.dest - t.lengthA + 1] = t.temp[t.cursorTemp + 1]]]
        TakeA(t) ==
            [t EXCEPT !.w[t.dest + 1] = t.w[t.cursor + 1],
                      !.dest = @ - 1, !.cursor = @ - 1, !.lengthA = @ - 1]
        TakeB(t) ==
            [t EXCEPT !.w[t.dest + 1] = t.temp[t.cursorTemp + 1],
                      !.dest = @ - 1, !.cursorTemp = @ - 1, !.lengthB = @ - 1]
        Galloping(t) == [t EXCEPT !.pc = "gallopA", !.minGallop = @ + 1]
        Again(t) ==
            IF t.nofWinsA >= 7 \/ t.nofWinsB >= 7
            THEN [t EXCEPT !.pc = "gallopA"]
            ELSE [t EXCEPT !.pc = "one", !.minGallop = @ + 1,
                           !.nofWinsA = 0, !.nofWinsB = 0]
    IN  CASE s.pc = "begin" ->
               The({ IF t.lengthA = 0 THEN Succeed(t)
                     ELSE IF t.lengthB = 1 THEN CopyA(t)
                     ELSE [t EXCEPT !.pc = "one"]
                   : t \in {TakeA(s)} })
          [] s.pc = "one" ->
               IF Less(s.temp[s.cursorTemp + 1], s.w[s.cursor + 1])
               THEN The({ IF t.lengthA = 0 THEN Succeed(t)
                          ELSE IF t.nofWinsA >= t.minGallop THEN Galloping(t)
                          ELSE t
                        : t \in {[TakeA(s) EXCEPT !.nofWinsA = @ + 1, !.nofWinsB = 0]} })
               ELSE The({ IF t.lengthB = 1 THEN CopyA(t)
                          ELSE IF t.nofWinsB >= t.minGallop THEN Galloping(t)
                          ELSE t
                        : t \in {[TakeB(s) EXCEPT !.nofWinsB = @ + 1, !.nofWinsA = 0]} })
          [] s.pc = "gallopA" ->
               The({ The({ IF n > 0 /\ t.lengthA = 0 THEN Succeed(t)
                           ELSE The({ IF u.lengthB = 1 THEN CopyA(u)
                                      ELSE [u EXCEPT !.pc = "gallopB"]
                                    : u \in {TakeB(t)} })
                         : t \in {[s EXCEPT
                                     !.minGallop = IF @ - 1 > 1 THEN @ - 1 ELSE 1,
                                     !.nofWinsA = n,
                                     !.w = IF n > 0
                                           THEN Copy(s.w, s.cursor - n + 1, s.w,
                                                     s.dest - n + 1, n)
                                           ELSE @,
                                     !.dest = @ - n,
                                     !.cursor = @ - n,
                                     !.lengthA = @ - n]} })
                   : n \in {s.lengthA - GallopRight(s.w, s.temp[s.cursorTemp + 1], s.base,
                                                    s.lengthA, s.lengthA - 1)} })
          [] s.pc = "gallopB" ->
               The({ The({ IF n > 0 /\ t.lengthB = 1 THEN CopyA(t)
                           ELSE IF n > 0 /\ t.lengthB = 0 THEN Succeed(t)
                           ELSE The({ IF u.lengthA = 0 THEN Succeed(u) ELSE Again(u)
                                    : u \in {TakeA(t)} })
                         : t \in {[s EXCEPT
                                     !.nofWinsB = n,
                                     !.w = IF n > 0
                                           THEN Copy(s.temp, s.cursorTemp - n + 1, s.w,
                                                     s.dest - n + 1, n)
                                           ELSE @,
                                     !.dest = @ - n,
                                     !.cursorTemp = @ - n,
                                     !.lengthB = @ - n]} })
                   : n \in {s.lengthB - GallopLeft(s.temp, s.w[s.cursor + 1], 0,
                                                   s.lengthB, s.lengthB - 1)} })
          [] OTHER -> s

\* steps of MergeLow, at most k of them, up to its end
RECURSIVE MergeLowSteps(_, _)
MergeLowSteps(s, k) ==
    CASE s.pc = "done" \/ k = 0 -> s
      [] k = 1 -> MergeLowStep(s)
      [] OTHER -> The({ MergeLowSteps(half, k - k \div 2)
                      : half \in {MergeLowSteps(s, k \div 2)} })

\* steps of MergeHigh, at most k of them, up to its end
RECURSIVE MergeHighSteps(_, _)
MergeHighSteps(s, k) ==
    CASE s.pc = "done" \/ k = 0 -> s
      [] k = 1 -> MergeHighStep(s)
      [] OTHER -> The({ MergeHighSteps(half, k - k \div 2)
                      : half \in {MergeHighSteps(s, k \div 2)} })

\* MergeLow(baseA, lengthA, baseB, lengthB): every step moves an element, so
\* there are no more steps than elements
MergeLow(st, baseA, lengthA, baseB, lengthB) ==
    MergeLowSteps([w |-> st.w, temp |-> SubSeq(st.w, baseA + 1, baseA + lengthA),
                   dest |-> baseA, cursorTemp |-> 0, cursor |-> baseB, base |-> baseA,
                   lengthA |-> lengthA, lengthB |-> lengthB,
                   minGallop |-> st.minGallop,
                   nofWinsA |-> 0, nofWinsB |-> 0, pc |-> "begin"],
                  lengthA + lengthB)

\* MergeHigh(baseA, lengthA, baseB, lengthB)
MergeHigh(st, baseA, lengthA, baseB, lengthB) ==
    MergeHighSteps([w |-> st.w, temp |-> SubSeq(st.w, baseB + 1, baseB + lengthB),
                    dest |-> baseB + lengthB - 1, cursorTemp |-> lengthB - 1,
                    cursor |-> baseA + lengthA - 1, base |-> baseA,
                    lengthA |-> lengthA, lengthB |-> lengthB,
                    minGallop |-> st.minGallop,
                    nofWinsA |-> 0, nofWinsB |-> 0, pc |-> "begin"],
                   lengthA + lengthB)

\* MergeAt(i): the pending runs i and i + 1 become one run; the elements of
\* the first that are in place already and the elements of the second that
\* are in place already are left out of the merge
MergeAt(st, i) ==
    LET A == st.runs[i + 1]
        B == st.runs[i + 2]
        runs == SubSeq(st.runs, 1, i)
                    \o <<[base |-> A.base, length |-> A.length + B.length]>>
                    \o SubSeq(st.runs, i + 3, Len(st.runs))
        Merged(m) == [st EXCEPT !.w = m.w, !.minGallop = m.minGallop, !.runs = runs]
    IN  The({ IF A.length - k = 0 THEN [st EXCEPT !.runs = runs]
              ELSE The({ IF lengthB = 0 THEN [st EXCEPT !.runs = runs]
                         ELSE IF A.length - k <= lengthB
                         THEN The({ Merged(m)
                                  : m \in {MergeLow(st, A.base + k, A.length - k,
                                                    B.base, lengthB)} })
                         ELSE The({ Merged(m)
                                  : m \in {MergeHigh(st, A.base + k, A.length - k,
                                                     B.base, lengthB)} })
                       : lengthB \in {GallopLeft(st.w, st.w[A.base + A.length], B.base,
                                                 B.length, B.length - 1)} })
            : k \in {GallopRight(st.w, st.w[B.base + 1], A.base, A.length, 0)} })

\* RunInvariantEstablished(pendingRuns, n): the run n - 2 is longer than the
\* runs n - 1 and n together
RunInvariantEstablished(runs, n) ==
    n < 2 \/ runs[n - 1].length > runs[n].length + runs[n + 1].length

\* MergeCollapse: pending runs are merged while the lengths of the last three
\* break the invariant (then the run before the last is merged with the
\* shorter of its neighbours) or the last run is not shorter than the one
\* before it
RECURSIVE MergeCollapse(_)
MergeCollapse(st) ==
    LET n == Len(st.runs) - 2
        Broken == \/ ~RunInvariantEstablished(st.runs, n + 1)
                  \/ ~RunInvariantEstablished(st.runs, n)
    IN  IF /\ Len(st.runs) > 1
           /\ (Broken \/ st.runs[n + 1].length <= st.runs[n + 2].length)
        THEN The({ MergeCollapse(merged)
                 : merged \in {MergeAt(st, IF /\ Broken
                                              /\ st.runs[n].length < st.runs[n + 2].length
                                           THEN n - 1 ELSE n)} })
        ELSE st

\* MergeForceCollapse: all pending runs are merged into one
RECURSIVE MergeForceCollapse(_)
MergeForceCollapse(st) ==
    IF Len(st.runs) > 1
    THEN The({ MergeForceCollapse(merged)
             : merged \in {MergeAt(st, IF /\ Len(st.runs) - 2 > 0
                                          /\ st.runs[Len(st.runs) - 2].length
                                                 < st.runs[Len(st.runs)].length
                                       THEN Len(st.runs) - 3
                                       ELSE Len(st.runs) - 2)} })
    ELSE st

\* one turn of the loop of ArrayTimSortImpl: the next run is made at low,
\* brought to the least run length by binary insertion when it is shorter,
\* pushed on the pending runs, and the pending runs are collapsed
NextRun(st, minRunLength) ==
    LET Length(run) == IF run.length < minRunLength
                       THEN (IF minRunLength < st.remaining THEN minRunLength
                             ELSE st.remaining)
                       ELSE run.length
    IN  The({
          The({ The({ [collapsed EXCEPT !.low = st.low + Length(run),
                                        !.remaining = st.remaining - Length(run)]
                    : collapsed \in {MergeCollapse(pushed)} })
              : pushed \in {[st EXCEPT
                                !.w = IF run.length < minRunLength
                                      THEN BinaryInsertionSort(
                                               run.w, st.low, st.low + run.length,
                                               st.low + Length(run))
                                      ELSE run.w,
                                !.runs = Append(@, [base |-> st.low,
                                                    length |-> Length(run)])]} })
        : run \in {CountAndMakeRun(st.w, st.low, st.low + st.remaining)} })

\* turns of the loop of ArrayTimSortImpl, at most k of them, up to its end
RECURSIVE NextRuns(_, _, _)
NextRuns(st, minRunLength, k) ==
    CASE st.remaining = 0 \/ k = 0 -> st
      [] k = 1 -> NextRun(st, minRunLength)
      [] OTHER -> The({ NextRuns(half, minRunLength, k - k \div 2)
                      : half \in {NextRuns(st, minRunLength, k \div 2)} })

\* ArrayTimSortImpl: the runs of the array are made and collapsed, and the
\* runs that are left are merged. Every run but the last has minRunLength
\* elements or more, so the loop has no more turns than the quotient and one.
ArrayTimSortImpl(arr, minRunLength) ==
    The({ MergeForceCollapse(st)
        : st \in {NextRuns([w |-> arr, minGallop |-> 7, runs |-> <<>>,
                            low |-> 0, remaining |-> Len(arr)],
                           minRunLength, Len(arr) \div minRunLength + 1)} })

\* mutant: the copy is left unsorted
SortedCopyUnsorted(arr) ==
    arr

\* const sorted = [...arr].sort((a, b) => a - b): a sorted copy, made as the
\* engine's sort makes it: runs are found or made, and merged, galloping when
\* one run wins 7 times in a row (the first value of minGallop)
SortedCopy(arr) ==
    IF Len(arr) < 2 THEN arr
    ELSE ArrayTimSortImpl(arr, ComputeMinRunLength(Len(arr), 0)).w

\* sorted[index]: the element when index is an integer in range, else undefined
ElementAt(sorted, index) ==
    IF IsFinite(index) /\ FEq(index, FFloor(index))
       /\ FGe(index, Zero(0)) /\ FLt(index, FInt(Len(sorted)))
    THEN sorted[FToInt(index) + 1]
    ELSE Undefined

percentile(arr, p) ==
    The({
      The({ IF FEq(index, FFloor(index))
            THEN ElementAt(sorted, index)
            ELSE The({
                   The({ FAdd(FMul(ElementAt(sorted, lower), FSub(FInt(1), weight)),
                              FMul(ElementAt(sorted, upper), weight))
                       : weight \in {FSub(index, lower)} })
                 : lower \in {FFloor(index)}, upper \in {FCeil(index)} })
          : index \in {FMul(FDiv(p, FInt(100)), FInt(Len(sorted) - 1))} })
    : sorted \in {SortedCopy(arr)} })

\* results.reduce((sum, val) => sum + val, 0)
RECURSIVE SumFrom(_, _)
SumFrom(sum, rest) ==
    IF rest = <<>> THEN sum
    ELSE IF Len(rest) = 1 THEN FAdd(sum, rest[1])
    ELSE The({ SumFrom(left, SubSeq(rest, Len(rest) \div 2 + 1, Len(rest)))
             : left \in {SumFrom(sum, SubSeq(rest, 1, Len(rest) \div 2))} })

\* results.filter(val => val > 0).length
PositiveCount(results) ==
    Cardinality({i \in 1..Len(results) : FGt(results[i], Zero(0))})

Return(v) ==
    [kind |-> "return", value |-> v]

Throw(msg) ==
    [kind |-> "throw", error |-> msg]

\* the record calculateStats builds once the guard has passed
StatsRecord(results) ==
    [mean                |-> FDiv(SumFrom(FInt(0), results), FInt(Len(results))),
     median              |-> percentile(results, FInt(50)),
     worstCase10         |-> percentile(results, FInt(10)),
     probabilityPositive |-> FDiv(FInt(PositiveCount(results)), FInt(Len(results)))]

\* mutant: the guard on the empty array is missing
calculateStatsUnguarded(results) ==
    Return(StatsRecord(results))

calculateStats(results) ==
    IF Len(results) = 0
    THEN Throw("Cannot calculate statistics for empty results array")
    ELSE Return(StatsRecord(results))

\* mutant: the array is sorted in place, without the copy
ArrayAfterSortInPlace(arr) ==
    SortedCopy(arr)

\* The caller's array after `[...arr].sort(...)`: the spread makes a new array
\* and sort reorders that one, so the caller's array keeps its elements and
\* their order.
ArrayAfterSort(arr) ==
    arr

\* the caller's array after percentile: its only statement that writes to an
\* array is the sort
ArrayAfterPercentile(arr) ==
    ArrayAfterSort(arr)

\* The caller's array after calculateStats: reduce and filter only read it, and
\* it goes through percentile twice; the empty array leaves at the guard.
ArrayAfterCalculateStats(results) ==
    IF Len(results) = 0 THEN results
    ELSE ArrayAfterPercentile(ArrayAfterPercentile(results))

\* -------------------------------------------------------------------------
\* lib/hedging.ts
\* -------------------------------------------------------------------------

\* the record calculateHedging returns, from its payout and its shares
HedgingRecord(baselineExpense, adverseExpense, yesPrice, payout, shares) ==
    The({ [shares                      |-> shares,
           premium                     |-> premium,
           hedgedOutcomeIfEventTrue    |-> FAdd(FSub(FNeg(adverseExpense), premium),
                                                FMul(shares, payout)),
           hedgedOutcomeIfEventFalse   |-> FSub(FNeg(baselineExpense), premium),
           unhedgedOutcomeIfEventTrue  |-> FNeg(adverseExpense),
           unhedgedOutcomeIfEventFalse |-> FNeg(baselineExpense)]
        : premium \in {FMul(shares, yesPrice)} })

\* mutant: the winning shares are redeemed without the fee
calculateHedgingNoFeeOnPayout(baselineExpense, adverseExpense, hedgeRatio, yesPrice, feeRate) ==
    The({ [r EXCEPT !.hedgedOutcomeIfEventTrue =
                        FAdd(FSub(FNeg(adverseExpense), r.premium), r.shares)]
        : r \in {HedgingRecord(baselineExpense, adverseExpense, yesPrice,
                               FSub(FInt(1), feeRate),
                               FDiv(FMul(FSub(adverseExpense, baselineExpense), hedgeRatio),
                                    FSub(FInt(1), feeRate)))} })

\* mutant: hedgeRatio is left out of the share count
calculateHedgingIgnoresRatio(baselineExpense, adverseExpense, hedgeRatio, yesPrice, feeRate) ==
    The({ HedgingRecord(baselineExpense, adverseExpense, yesPrice, payout,
                        FDiv(FSub(adverseExpense, baselineExpense), payout))
        : payout \in {FSub(FInt(1), feeRate)} })

\* mutant: the whole adverse expense is hedged, not the additional expense
calculateHedgingWholeExpense(baselineExpense, adverseExpense, hedgeRatio, yesPrice, feeRate) ==
    The({ HedgingRecord(baselineExpense, adverseExpense, yesPrice, payout,
                        FDiv(FMul(adverseExpense, hedgeRatio), payout))
        : payout \in {FSub(FInt(1), feeRate)} })

\* mutant: the fee is added to the payout
calculateHedgingFeeAdded(baselineExpense, adverseExpense, hedgeRatio, yesPrice, feeRate) ==
    The({ HedgingRecord(baselineExpense, adverseExpense, yesPrice, payout,
                        FDiv(FMul(FSub(adverseExpense, baselineExpense), hedgeRatio), payout))
        : payout \in {FAdd(FInt(1), feeRate)} })

\* mutant: the magnitude of the additional expense is hedged
calculateHedgingAbsoluteExposure(baselineExpense, adverseExpense, hedgeRatio, yesPrice, feeRate) ==
    The({ HedgingRecord(baselineExpense, adverseExpense, yesPrice, payout,
                        FDiv(FMul(FAbs(FSub(adverseExpense, baselineExpense)), hedgeRatio),
                             payout))
        : payout \in {FSub(FInt(1), feeRate)} })

calculateHedging(baselineExpense, adverseExpense, hedgeRatio, yesPrice, feeRate) ==
    The({
      The({ HedgingRecord(baselineExpense, adverseExpense, yesPrice, payout, shares)
          : shares \in {FDiv(FMul(additionalExpense, hedgeRatio), payout)} })
    : payout            \in {FSub(FInt(1), feeRate)},
      additionalExpense \in {FSub(adverseExpense, baselineExpense)} })

\* the record calculateEmotionalHedging returns, from its payout and its shares
EmotionalRecord(ticketCost, yesPrice, payout, shares) ==
    The({ [shares                     |-> shares,
           premium                    |-> premium,
           outcomeIfTeamWins          |-> FSub(FNeg(ticketCost), premium),
           outcomeIfTeamLoses         |-> FSub(FAdd(FNeg(ticketCost), FMul(shares, payout)),
                                               premium),
           unhedgedOutcomeIfTeamWins  |-> FNeg(ticketCost),
           unhedgedOutcomeIfTeamLoses |-> FNeg(ticketCost)]
        : premium \in {FMul(shares, yesPrice)} })

\* mutant: the consolation is paid out without the fee
calculateEmotionalHedgingNoFee(ticketCost, desiredConsolation, hedgeRatio, yesPrice, feeRate) ==
    The({ [r EXCEPT !.outcomeIfTeamLoses =
                        FSub(FAdd(FNeg(ticketCost), r.shares), r.premium)]
        : r \in {EmotionalRecord(ticketCost, yesPrice, FSub(FInt(1), feeRate),
                                 FDiv(FMul(desiredConsolation, hedgeRatio),
                                      FSub(FInt(1), feeRate)))} })

calculateEmotionalHedging(ticketCost, desiredConsolation, hedgeRatio, yesPrice, feeRate) ==
    The({
      The({ EmotionalRecord(ticketCost, yesPrice, payout, shares)
          : shares \in {FDiv(targetConsolation, payout)} })
    : payout            \in {FSub(FInt(1), feeRate)},
      targetConsolation \in {FMul(desiredConsolation, hedgeRatio)} })

\* ---- findOptimalHedgeRatio: the metrics of one candidate ----

\* the loop counting the trials with hedged[j] > unhedged[j]
Wins(results) ==
    Cardinality({j \in 1..Len(results.hedged) :
                    FGt(results.hedged[j], results.unhedged[j])})

\* values.reduce((sum, val) => sum + Math.pow(val - mean, 2), 0); Math.pow(v, 2)
\* is the product v * v
RECURSIVE SquaresFrom(_, _, _)
SquaresFrom(sum, rest, mean) ==
    IF rest = <<>> THEN sum
    ELSE IF Len(rest) = 1
    THEN The({ FAdd(sum, FMul(dev, dev)) : dev \in {FSub(rest[1], mean)} })
    ELSE The({ SquaresFrom(left, SubSeq(rest, Len(rest) \div 2 + 1, Len(rest)), mean)
             : left \in {SquaresFrom(sum, SubSeq(rest, 1, Len(rest) \div 2), mean)} })

\* Math.sqrt(values.reduce(...) / runs)
StdDev(values, mean, runs) ==
    FSqrt(FDiv(SquaresFrom(FInt(0), values, mean), FInt(runs)))

\* Math.max(...values) and Math.min(...values), -Infinity and Infinity of none
RECURSIVE MaxFrom(_, _)
MaxFrom(best, rest) ==
    IF rest = <<>> THEN best
    ELSE IF Len(rest) = 1 THEN FMax(best, rest[1])
    ELSE The({ MaxFrom(left, SubSeq(rest, Len(rest) \div 2 + 1, Len(rest)))
             : left \in {MaxFrom(best, SubSeq(rest, 1, Len(rest) \div 2))} })

RECURSIVE MinFrom(_, _)
MinFrom(best, rest) ==
    IF rest = <<>> THEN best
    ELSE IF Len(rest) = 1 THEN FMin(best, rest[1])
    ELSE The({ MinFrom(left, SubSeq(rest, Len(rest) \div 2 + 1, Len(rest)))
             : left \in {MinFrom(best, SubSeq(rest, 1, Len(rest) \div 2))} })

RangeOf(values) ==
    FSub(MaxFrom(Inf(1), values), MinFrom(Inf(0), values))

\* unhedged > 0 ? Math.max(0, ((unhedged - hedged) / unhedged) * 100) : 0, the
\* form of volatilityReduction (standard deviations) and of
\* maxDrawdownReduction (ranges)
\* mutant: no floor at 0
ReductionUnfloored(unhedged, hedged) ==
    IF FGt(unhedged, FInt(0))
    THEN FMul(FDiv(FSub(unhedged, hedged), unhedged), FInt(100))
    ELSE FInt(0)

Reduction(unhedged, hedged) ==
    IF FGt(unhedged, FInt(0))
    THEN FMax(FInt(0), FMul(FDiv(FSub(unhedged, hedged), unhedged), FInt(100)))
    ELSE FInt(0)

\* mutant: the quotient whatever the standard deviation
SharpeRatioUnguarded(excessReturn, hedgedStdDev) ==
    FDiv(excessReturn, hedgedStdDev)

SharpeRatio(excessReturn, hedgedStdDev) ==
    IF FGt(hedgedStdDev, Dec(1, 100)) THEN FDiv(excessReturn, hedgedStdDev) ELSE FInt(0)

\* mutant: the quotient whatever the baseline
WorstCaseImprovementPctUnguarded(worstCaseImprovement, unhedgedWorstCase10) ==
    FMul(FDiv(worstCaseImprovement, FAbs(unhedgedWorstCase10)), FInt(100))

WorstCaseImprovementPct(worstCaseImprovement, unhedgedWorstCase10) ==
    IF FGt(FAbs(unhedgedWorstCase10), FInt(0))
    THEN FMul(FDiv(worstCaseImprovement, FAbs(unhedgedWorstCase10)), FInt(100))
    ELSE FInt(0)

RiskScore(worstCaseImprovementPct, volatilityReduction, maxDrawdownReduction) ==
    FAdd(FAdd(FMul(worstCaseImprovementPct, Dec(7, 10)),
              FMul(volatilityReduction, Dec(2, 10))),
         FMul(maxDrawdownReduction, Dec(1, 10)))

\* The metrics and the score of a candidate from its simulation `results`, the
\* statistics of its hedged totals, and the unhedged sequence `comparison` with
\* its statistics that the candidate is measured against.
MetricsFrom(results, hedgedStats, comparison, unhedgedStats, runs) ==
    The({
      [winPercentage        |-> FMul(FDiv(FInt(Wins(results)), FInt(runs)), FInt(100)),
       worstCaseImprovement |-> worstCaseImprovement,
       volatilityReduction  |-> volatilityReduction,
       sharpeRatio          |-> SharpeRatio(FSub(hedgedStats.mean, unhedgedStats.mean),
                                            hedgedStdDev),
       maxDrawdownReduction |-> maxDrawdownReduction,
       riskScore            |-> RiskScore(WorstCaseImprovementPct(worstCaseImprovement,
                                                                  unhedgedStats.worstCase10),
                                          volatilityReduction, maxDrawdownReduction)]
    : worstCaseImprovement \in {FSub(hedgedStats.worstCase10, unhedgedStats.worstCase10)},
      hedgedStdDev         \in {StdDev(results.hedged, hedgedStats.mean, runs)},
      volatilityReduction  \in {Reduction(StdDev(comparison, unhedgedStats.mean, runs),
                                          StdDev(results.hedged, hedgedStats.mean, runs))},
      maxDrawdownReduction \in {Reduction(RangeOf(comparison), RangeOf(results.hedged))} })

\* mutant: the candidate is measured against the unhedged totals of its own
\* simulation
CandidateMetricsFresh(results, hedgedStats, unhedgedResults, unhedgedStats, runs) ==
    MetricsFrom(results, hedgedStats, results.unhedged, unhedgedStats, runs)

\* lines 229-273: the candidate is measured against unhedgedResults, the
\* unhedged totals of the simulation made before the sweep
CandidateMetrics(results, hedgedStats, unhedgedResults, unhedgedStats, runs) ==
    MetricsFrom(results, hedgedStats, unhedgedResults, unhedgedStats, runs)

\* mutant: the ratio as a percentage
CandidateRatioPercent(i, steps) ==
    FMul(FDiv(FInt(i), FInt(steps)), FInt(100))

\* const ratio = i / steps
CandidateRatio(i, steps) ==
    FDiv(FInt(i), FInt(steps))

\* mutant: the last candidate is left out
SweepCondExclusive(i, steps) ==
    i < steps

\* mutant: one candidate too many
SweepCondOneMore(i, steps) ==
    i <= steps + 1

\* i <= steps
SweepCond(i, steps) ==
    i <= steps

\* mutant: the lower score wins
BetterWhenLower(riskScore, bestRiskScore) ==
    FLt(riskScore, bestRiskScore) \/ bestRiskScore = Inf(1)

\* mutant: a tie replaces the best so far
BetterOrEqual(riskScore, bestRiskScore) ==
    FGe(riskScore, bestRiskScore)

\* riskScore > bestRiskScore
Better(riskScore, bestRiskScore) ==
    FGt(riskScore, bestRiskScore)

\* ---- findOptimalEmotionalHedgeRatio: the sweep and the metrics of one candidate ----

\* for (let ratio = 0.1; ...
EmoFirstRatio == Dec(1, 10)

\* const numSims = 1000: the simulated outcomes of each candidate
numSims == 1000

\* ... ratio <= 1.0; ...
EmoSweepCond(ratio) ==
    FLe(ratio, FInt(1))

\* ... ratio += 0.05)
EmoNextRatio(ratio) ==
    FAdd(ratio, Dec(5, 100))

\* hedgedStdDev || 1
OrOne(x) ==
    IF IsNaN(x) \/ IsZero(x) THEN FInt(1) ELSE x

\* the score of a candidate from its metrics and its premium
EmoRiskScore(m, premium) ==
    FSub(FAdd(FAdd(FAdd(FMul(m.worstCaseImprovement, Dec(4, 10)),
                        FMul(m.volatilityReduction, Dec(3, 10))),
                   FMul(m.maxDrawdownReduction, Dec(2, 10))),
              FMul(FMul(m.sharpeRatio, FInt(10)), Dec(1, 10))),
         FMul(premium, Dec(1, 10)))

\* the metrics of a candidate from its outcomes, their statistics and their
\* standard deviations
EmoMetricsFrom(hedgedOutcomes, unhedgedOutcomes, hedgedStats, unhedgedStats, hedgedStdDev, unhedgedStdDev) ==
    [worstCaseImprovement |-> FSub(hedgedStats.worstCase10, unhedgedStats.worstCase10),
     volatilityReduction  |-> FMax(FInt(0),
                                   FMul(FDiv(FSub(unhedgedStdDev, hedgedStdDev),
                                             unhedgedStdDev), FInt(100))),
     maxDrawdownReduction |-> FMax(FInt(0), FSub(FAbs(unhedgedStats.worstCase10),
                                                 FAbs(hedgedStats.worstCase10))),
     winPercentage        |-> FMul(FDiv(FInt(Wins([hedged   |-> hedgedOutcomes,
                                                   unhedged |-> unhedgedOutcomes])),
                                        FInt(Len(hedgedOutcomes))), FInt(100)),
     sharpeRatio          |-> FDiv(hedgedStats.mean, OrOne(hedgedStdDev))]

\* the metrics and the score of the candidate with this hedging record and
\* these simulated outcomes
EmoCandidate(hedging, hedgedOutcomes, unhedgedOutcomes) ==
    The({
      The({
        The({ [metrics |-> m, riskScore |-> EmoRiskScore(m, hedging.premium)]
            : m \in {EmoMetricsFrom(hedgedOutcomes, unhedgedOutcomes, hedgedStats,
                                    unhedgedStats, hedgedStdDev, unhedgedStdDev)} })
        : hedgedStdDev   \in {StdDev(hedgedOutcomes, hedgedStats.mean, Len(hedgedOutcomes))},
          unhedgedStdDev \in {StdDev(unhedgedOutcomes, unhedgedStats.mean,
                                     Len(unhedgedOutcomes))} })
      : hedgedStats   \in {calculateStats(hedgedOutcomes).value},
        unhedgedStats \in {calculateStats(unhedgedOutcomes).value} })

\* -------------------------------------------------------------------------
\* Bounds and input sets
\* -------------------------------------------------------------------------

MaxLen == 3

MaxMonths == 3

MaxRuns == 2

MaxSteps == 2

\* Math.random() calls of one call of the optimizer
MaxDraws == 12


\* trial totals of each kind that the simulations of one call of the
\* optimizer return
MaxTotals == 8

\* user events (changes of an input, clicks, submits) of one behaviour of the page
MaxEvents == 3

RECURSIVE SeqsUpTo(_, _)
SeqsUpTo(S, n) ==
    IF n = 0 THEN {<<>>}
    ELSE LET shorter == SeqsUpTo(S, n - 1)
         IN  shorter \cup {Append(s, x) : s \in {t \in shorter : Len(t) = n - 1}, x \in S}

SampleValues == {FInt(-296), FInt(-100), FInt(0), Dec(1, 10), FInt(5)}

Samples == SeqsUpTo(SampleValues, MaxLen)

Percentiles == {FInt(0), FInt(10), FInt(50), FInt(100)}

Baselines == {FInt(100), FInt(150)}

Adverses == {FInt(80), FInt(100), FInt(120)}

HedgeRatios == {FInt(0), Dec(8, 10), FInt(1)}

YesPrices == {FInt(0), Dec(35, 100), Dec(1, 2)}

FeeRates == {FInt(0), Dec(1, 1000), Dec(1, 100), Dec(2, 100), Dec(5, 100), FInt(1)}

TicketCosts == {FInt(0), FInt(75)}

Consolations == {FInt(0), FInt(200), Dec(333, 10)}

\* the simulator's scenarios: adverse below, at and above the baseline
SimAdverses == {FInt(80), FInt(100), FInt(150)}

SimHedgeRatios == {FInt(0), Dec(1, 2)}

SimYesPrice == Dec(3, 10)

SimFeeRate == Dec(1, 100)

\* months: the integers -1 .. MaxMonths and one value that is no integer
MonthsValues == {FInt(m) : m \in -1..MaxMonths} \cup {Dec(3, 2)}

\* values Math.random() may return, in [0, 1): below, at and above the price
Uniforms == {FInt(0), Dec(3, 10), Dec(9, 10)}

\* a value of Math.random() below the prices and one above them
RandomLow == FInt(0)

RandomHigh == Dec(9, 10)

\* the ways Math.random() behaves over a call of findOptimalEmotionalHedgeRatio:
\* every value below the price, every value above it, or of each candidate's
\* numSims values the first 300 below and the rest above
EmoRandoms == {"low", "high", "mixed"}

\* what the call number n (from 0) of Math.random() may return when it behaves
\* as rule says; "any" leaves every call free
RandomValues(rule, n) ==
    IF rule = "any" THEN Uniforms
    ELSE IF rule = "low" \/ (rule = "mixed" /\ n % numSims < 300) THEN {RandomLow}
    ELSE {RandomHigh}

\* the calls of findOptimalEmotionalHedgeRatio, each with the way Math.random()
\* behaves during it: an ordinary call with draws on both sides of the price
\* and one with every draw below it, no consolation, the price 0 below which
\* no draw falls, and a consolation that is no integer
EmoScenarios ==
    {[desiredConsolation |-> FInt(200), yesPrice |-> Dec(3, 10), random |-> "mixed"],
     [desiredConsolation |-> FInt(200), yesPrice |-> Dec(3, 10), random |-> "low"],
     [desiredConsolation |-> FInt(0),   yesPrice |-> Dec(3, 10), random |-> "mixed"],
     [desiredConsolation |-> FInt(200), yesPrice |-> FInt(0),    random |-> "high"],
     [desiredConsolation |-> Dec(333, 10), yesPrice |-> Dec(3, 10), random |-> "high"]}

\* the optimizer's scenarios: no exposure and a positive exposure
OptAdverses == {FInt(100), FInt(150)}

\* baseline expenses of the optimizer's calls; with 0 a trial without event
\* totals 0, and so may the baseline's 10th percentile
OptBaselines == {FInt(100), FInt(0)}

\* <<months, runs>> of the optimizer's calls; runs = 0 leaves calculateStats
\* with an empty sample
OptShapes == {<<1, 0>>, <<1, 1>>, <<1, 2>>, <<2, 1>>, <<2, 2>>}

\* ---- the page: Home, ExpenseForm and useSimulation ----

Null == [kind |-> "null"]

\* !x of a number x
Falsy(x) ==
    IsNaN(x) \/ IsZero(x)

\* formData?.name
Get(data, name) ==
    IF data = Null THEN Undefined ELSE data[name]

\* x || d of a number or undefined x
Or(x, d) ==
    IF x = Undefined \/ Falsy(x) THEN d ELSE x

\* the steps parameter's default
DefaultSteps == 20

\* the values useForm starts with
defaultValues ==
    [expenseName     |-> "",
     baselineExpense |-> FInt(100),
     adverseExpense  |-> FInt(300),
     hedgeCoverage   |-> FInt(80),
     yesPrice        |-> Dec(15, 100),
     monthsToHedge   |-> FInt(12),
     feeRate         |-> FInt(1),
     hedgeMode       |-> "expense"]

\* the values the two mode buttons set
ModeValues(values, mode) ==
    IF mode = "expense"
    THEN [values EXCEPT !.hedgeMode = mode, !.expenseName = "",
                        !.baselineExpense = FInt(100), !.adverseExpense = FInt(300),
                        !.monthsToHedge = FInt(12), !.yesPrice = Dec(15, 100)]
    ELSE [values EXCEPT !.hedgeMode = mode, !.expenseName = "",
                        !.baselineExpense = FInt(50), !.adverseExpense = FInt(150),
                        !.monthsToHedge = FInt(1), !.yesPrice = Dec(35, 100)]

\* what the user types or drags into the inputs; NaN is an emptied number input
FormInputs ==
    [expenseName     |-> {"", "Gas"},
     baselineExpense |-> {FInt(100), FInt(400), NaN},
     hedgeCoverage   |-> {FInt(80), FInt(0)},
     feeRate         |-> {FInt(1), FInt(0)}]

\* the rules of register(...): handleSubmit calls onSubmit only if they hold
\* (a required number input that is empty reads NaN)
Valid(values) ==
    /\ values.expenseName # ""
    /\ ~IsNaN(values.baselineExpense) /\ FGe(values.baselineExpense, Dec(1, 100))
    /\ ~IsNaN(values.adverseExpense) /\ FGe(values.adverseExpense, Dec(1, 100))
    /\ ~IsNaN(values.yesPrice) /\ FGe(values.yesPrice, Dec(1, 100))
                                 /\ FLe(values.yesPrice, Dec(99, 100))
    /\ ~IsNaN(values.feeRate) /\ FGe(values.feeRate, FInt(0))
                                /\ FLe(values.feeRate, FInt(10))
    /\ ~IsNaN(values.monthsToHedge) /\ FGe(values.monthsToHedge, FInt(1))
                                      /\ FLe(values.monthsToHedge, FInt(24))

\* the arguments Home passes to useSimulation
HomeArguments(data) ==
    [baselineExpense |-> Or(Get(data, "baselineExpense"), FInt(0)),
     adverseExpense  |-> Or(Get(data, "adverseExpense"), FInt(0)),
     hedgeRatio      |-> FDiv(Or(Get(data, "hedgeCoverage"), FInt(0)), FInt(100)),
     yesPrice        |-> Or(Get(data, "yesPrice"), FInt(0)),
     months          |-> Or(Get(data, "monthsToHedge"), FInt(1)),
     feeRate         |-> FDiv(Or(Get(data, "feeRate"), FInt(1)), FInt(100)),
     hedgeMode       |-> IF data = Null THEN "expense" ELSE data.hedgeMode]

\* useSimulation's guard: the inputs for which it returns null at once
InvalidInputs(a) ==
    \/ Falsy(a.baselineExpense) \/ FLe(a.baselineExpense, FInt(0))
    \/ Falsy(a.adverseExpense) \/ FLe(a.adverseExpense, FInt(0))
    \/ Falsy(a.hedgeRatio) \/ FLt(a.hedgeRatio, FInt(0)) \/ FGt(a.hedgeRatio, FInt(1))
    \/ Falsy(a.yesPrice) \/ FLe(a.yesPrice, FInt(0)) \/ FGe(a.yesPrice, FInt(1))
    \/ Falsy(a.months) \/ FLe(a.months, FInt(0))

\* runs: number = 5000, the default of runComparisonSimulation and of
\* findOptimalHedgeRatio, which the page never overrides
DefaultRuns == 5000

\* const numSimulations = 5000 of the hook's emotion branch
numSimulations == 5000

\* how often the body of for (let month = 0; month < months; month++) runs
MonthCount(months) ==
    IF IsFinite(months) /\ FGt(months, FInt(0)) THEN FToInt(FCeil(months)) ELSE 0

\* lines 111-118: the hedging field of the expense branch, from what
\* calculateHedging returned
ExpenseHedging(hedging) ==
    [shares                      |-> hedging.shares,
     premium                     |-> hedging.premium,
     hedgedOutcomeIfEventTrue    |-> hedging.hedgedOutcomeIfEventTrue,
     hedgedOutcomeIfEventFalse   |-> hedging.hedgedOutcomeIfEventFalse,
     unhedgedOutcomeIfEventTrue  |-> hedging.unhedgedOutcomeIfEventTrue,
     unhedgedOutcomeIfEventFalse |-> hedging.unhedgedOutcomeIfEventFalse]

\* lines 186-193: the hedging field of the emotion branch, from what
\* calculateEmotionalHedging returned; the event is the team's loss
EmotionHedging(emotionalHedging) ==
    [shares                      |-> emotionalHedging.shares,
     premium                     |-> emotionalHedging.premium,
     hedgedOutcomeIfEventTrue    |-> emotionalHedging.outcomeIfTeamLoses,
     hedgedOutcomeIfEventFalse   |-> emotionalHedging.outcomeIfTeamWins,
     unhedgedOutcomeIfEventTrue  |-> emotionalHedging.unhedgedOutcomeIfTeamLoses,
     unhedgedOutcomeIfEventFalse |-> emotionalHedging.unhedgedOutcomeIfTeamWins]

\* useSimulation: null, or the fields hedgeMode and hedging of the results.
\* These are the fields that the arguments decide. The other four
\* (hedgedStats, unhedgedStats, comparison, histogram) are computed from the
\* outcomes of the Math.random() calls of the simulation, DefaultRuns trials
\* or numSimulations outcomes; the page's state does not hold them, it counts
\* the calls (HookDraws)
useSimulation(a) ==
    IF InvalidInputs(a)
    THEN Null
    ELSE IF a.hedgeMode = "expense"
    THEN IF FLe(a.adverseExpense, a.baselineExpense)
         THEN Null
         ELSE The({ [hedgeMode |-> "expense", hedging |-> ExpenseHedging(hedging)]
                  : hedging \in {calculateHedging(a.baselineExpense, a.adverseExpense,
                                                  a.hedgeRatio, a.yesPrice, a.feeRate)} })
    ELSE The({ [hedgeMode |-> "emotion", hedging |-> EmotionHedging(emotionalHedging)]
             : emotionalHedging \in {calculateEmotionalHedging(
                                         a.baselineExpense, a.adverseExpense,
                                         a.hedgeRatio, a.yesPrice, a.feeRate)} })

\* the Math.random() calls of one computation of the hook: none when it
\* returns null, one for each month of each trial of runComparisonSimulation
\* (line 58), one for each simulated outcome of the emotion branch (line 138)
HookDraws(a) ==
    IF InvalidInputs(a) THEN 0
    ELSE IF a.hedgeMode = "expense"
    THEN IF FLe(a.adverseExpense, a.baselineExpense)
         THEN 0
         ELSE DefaultRuns * MonthCount(a.months)
    ELSE numSimulations

\* the optimize button's input checks: the alert it raises, "" if none
OptimizeAlert(values, mode) ==
    IF \/ Falsy(values.baselineExpense) \/ Falsy(values.adverseExpense)
       \/ Falsy(values.yesPrice) \/ values.feeRate = Undefined
    THEN "Please fill in all required fields first"
    ELSE IF mode = "expense" /\ FLe(values.adverseExpense, values.baselineExpense)
    THEN "Adverse expense must be higher than baseline expense"
    ELSE ""

\* the ratios findOptimalHedgeRatio sweeps with the default steps: i / steps
\* for i = 0, ..., steps; its initial bestRatio, 0, is the first of them
ExpenseRatios ==
    {CandidateRatio(i, DefaultSteps) : i \in {i \in 0..DefaultSteps : SweepCond(i, DefaultSteps)}}

\* the ratios findOptimalEmotionalHedgeRatio sweeps from this one on
RECURSIVE EmoSweep(_)
EmoSweep(ratio) ==
    IF EmoSweepCond(ratio) THEN <<ratio>> \o EmoSweep(EmoNextRatio(ratio)) ELSE <<>>

\* for (let ratio = 0.1; ratio <= 1.0; ratio += 0.05)
EmoRatios == EmoSweep(EmoFirstRatio)

\* what findOptimalEmotionalHedgeRatio can return as optimalRatio: a swept
\* ratio, or its initial bestRatio, 0.5, when no score is above -Infinity
EmotionRatios ==
    {EmoRatios[j] : j \in DOMAIN EmoRatios} \cup {Dec(5, 10)}

\* alert(resultMessage), lines 390-404 and 418-432: the headline of the
\* message; the figures that follow it come from the draws
ResultMessage(mode) ==
    IF mode = "expense" THEN "Optimal Hedge Ratio" ELSE "Optimal Consolation Coverage"

\* line 435: the message of the catch clause
ErrorMessage(mode) ==
    IF mode = "expense"
    THEN "Error optimizing hedge ratio. Please check your inputs."
    ELSE "Error optimizing consolation ratio. Please check your inputs."

\* mutant: setIsOptimizing(false) at the end of the try block
OptimizingAfterNoFinally(outcome) ==
    outcome.kind = "throw"

\* finally { setIsOptimizing(false) }
OptimizingAfter(outcome) ==
    FALSE

VARIABLES
    op,               \* the engine function called
    args,             \* its arguments
    ret,              \* what it returned or threw, <<>> while it has not
    pc,               \* where the call is: "call", "run", "month", "done"
    run,              \* runComparisonSimulation: the loop counter run
    month,            \* the loop counter month
    hedgedTotal,      \* the running total of the trial, hedged
    unhedgedTotal,    \* the running total of the trial, unhedged
    hedgedResults,    \* the totals pushed so far, hedged
    unhedgedResults,  \* the totals pushed so far, unhedged
    events,           \* history: eventOccurs of each Math.random() call of the trial
    trials,           \* history: of each finished trial, the number of its
                      \* Math.random() calls and how many were below yesPrice
    array,            \* the caller's array object handed to the statistics module
    draws,            \* history: the number of Math.random() calls so far
    random,           \* the environment: how Math.random() behaves (RandomValues)
    opt,              \* the frame of findOptimalHedgeRatio while it runs or waits
                      \* for a runComparisonSimulation call, NoFrame otherwise
    formValues,       \* ExpenseForm: the values of the form (what watch reads)
    hedgeMode,        \* ExpenseForm: the state hedgeMode
    isOptimizing,     \* ExpenseForm: the state isOptimizing
    formData,         \* Home: the state formData, Null before the first submit
    simulationResults,\* Home: what useSimulation returned at the last render
    timeouts,         \* the callbacks scheduled with setTimeout, each with the
                      \* values its closure holds
    alerted,          \* history: the last alert shown, "" if none
    callback,         \* the scheduled optimization that has shown its alert and
                      \* waits in alert() for the user to close it, with how its
                      \* try block ended; NoFrame if there is none
    userEvents        \* history: the number of changes, clicks and submits so far

vars == <<op, args, ret, pc, run, month, hedgedTotal, unhedgedTotal,
          hedgedResults, unhedgedResults, events, trials, array, draws, random, opt,
          formValues, hedgeMode, isOptimizing, formData, simulationResults,
          timeouts, alerted, callback, userEvents>>

simVars == <<run, month, hedgedTotal, unhedgedTotal,
             hedgedResults, unhedgedResults, events, trials>>

engineVars == <<op, args, ret, pc, simVars, array, draws, random, opt>>

pageVars == <<formValues, hedgeMode, isOptimizing, formData, simulationResults,
              timeouts, alerted, callback, userEvents>>

NoFrame ==
    [pc |-> "none"]

\* the locals of runComparisonSimulation at its entry
SimEntry ==
    /\ run = 0
    /\ month = 0
    /\ hedgedTotal = FInt(0)
    /\ unhedgedTotal = FInt(0)
    /\ hedgedResults = <<>>
    /\ unhedgedResults = <<>>
    /\ events = <<>>
    /\ trials = <<>>

\* the page as it is after its first render
Mounted ==
    /\ formValues = defaultValues
    /\ hedgeMode = "expense"
    /\ isOptimizing = FALSE
    /\ formData = Null
    /\ simulationResults = useSimulation(HomeArguments(Null))
    /\ timeouts = <<>>
    /\ alerted = ""
    /\ callback = NoFrame
    /\ userEvents = 0

\* one more user event, of at most MaxEvents; there is none while the alert
\* of a scheduled optimization is open: alert() blocks the page
UserEvent ==
    /\ callback = NoFrame
    /\ userEvents < MaxEvents
    /\ userEvents' = userEvents + 1

\* ---- the statistics module, one call per behaviour ----

InitStats ==
    /\ \/ /\ op = "percentile"
          /\ \E arr \in Samples, p \in Percentiles :
                args = [arr |-> arr, p |-> p] /\ array = arr
       \/ /\ op = "calculateStats"
          /\ \E results \in Samples :
                args = [results |-> results] /\ array = results
    /\ ret = <<>>
    /\ pc = "call"
    /\ SimEntry
    /\ draws = 0
    /\ random = "any"
    /\ opt = NoFrame
    /\ Mounted

CallPercentile ==
    /\ pc = "call"
    /\ op = "percentile"
    /\ ret' = Return(percentile(array, args.p))
    /\ array' = ArrayAfterPercentile(array)
    /\ pc' = "done"
    /\ UNCHANGED <<pageVars, random, op, args, simVars, draws, opt>>

CallCalculateStats ==
    /\ pc = "call"
    /\ op = "calculateStats"
    /\ ret' = calculateStats(array)
    /\ array' = ArrayAfterCalculateStats(array)
    /\ pc' = "done"
    /\ UNCHANGED <<pageVars, random, op, args, simVars, draws, opt>>

NextStats ==
    \/ CallPercentile
    \/ CallCalculateStats

SpecStats == InitStats /\ [][NextStats]_vars

\* ---- calculateHedging, one call per behaviour ----

InitHedging ==
    /\ \/ /\ op = "calculateHedging"
          /\ \E b \in Baselines, a \in Adverses, h \in HedgeRatios, y \in YesPrices,
                f \in FeeRates :
                args = [baselineExpense |-> b, adverseExpense |-> a, hedgeRatio |-> h,
                        yesPrice |-> y, feeRate |-> f]
       \/ /\ op = "calculateEmotionalHedging"
          /\ \E t \in TicketCosts, c \in Consolations, h \in HedgeRatios, y \in YesPrices,
                f \in FeeRates :
                args = [ticketCost |-> t, desiredConsolation |-> c, hedgeRatio |-> h,
                        yesPrice |-> y, feeRate |-> f]
    /\ ret = <<>>
    /\ pc = "call"
    /\ SimEntry
    /\ array = <<>>
    /\ draws = 0
    /\ random = "any"
    /\ opt = NoFrame
    /\ Mounted

CallCalculateHedging ==
    /\ pc = "call"
    /\ op = "calculateHedging"
    /\ ret' = Return(calculateHedging(args.baselineExpense, args.adverseExpense,
                                      args.hedgeRatio, args.yesPrice, args.feeRate))
    /\ pc' = "done"
    /\ UNCHANGED <<pageVars, random, op, args, simVars, array, draws, opt>>

CallCalculateEmotionalHedging ==
    /\ pc = "call"
    /\ op = "calculateEmotionalHedging"
    /\ ret' = Return(calculateEmotionalHedging(args.ticketCost, args.desiredConsolation,
                                               args.hedgeRatio, args.yesPrice, args.feeRate))
    /\ pc' = "done"
    /\ UNCHANGED <<pageVars, random, op, args, simVars, array, draws, opt>>

NextHedging ==
    \/ CallCalculateHedging
    \/ CallCalculateEmotionalHedging

SpecHedging == InitHedging /\ [][NextHedging]_vars

\* ---- runComparisonSimulation, one call per behaviour, one step per draw ----

InitSim ==
    /\ op = "runComparisonSimulation"
    /\ \E a \in SimAdverses, h \in SimHedgeRatios, m \in MonthsValues, n \in 0..MaxRuns :
          args = [baselineExpense |-> FInt(100), adverseExpense |-> a, hedgeRatio |-> h,
                  yesPrice |-> SimYesPrice, months |-> m, feeRate |-> SimFeeRate, runs |-> n]
    /\ ret = <<>>
    /\ pc = "run"
    /\ SimEntry
    /\ array = <<>>
    /\ draws = 0
    /\ random = "any"
    /\ opt = NoFrame
    /\ Mounted

\* mutant: one run too many
RunLoopCondInclusive(r, runs) ==
    r <= runs

\* run < runs
RunLoopCond(r, runs) ==
    r < runs

\* mutant: one month too many
MonthLoopCondInclusive(m, months) ==
    FLe(FInt(m), months)

\* month < months
MonthLoopCond(m, months) ==
    FLt(FInt(m), months)

\* mutant: the hedged total takes the event-true outcome in both branches
MonthStepAlwaysTrueOutcome(u, totals, a) ==
    The({ [hedgedTotal   |-> FAdd(totals.hedgedTotal, h.hedgedOutcomeIfEventTrue),
           unhedgedTotal |-> FAdd(totals.unhedgedTotal,
                                  IF eventOccurs THEN h.unhedgedOutcomeIfEventTrue
                                  ELSE h.unhedgedOutcomeIfEventFalse),
           eventOccurs   |-> eventOccurs]
        : eventOccurs \in {FLt(u, a.yesPrice)},
          h \in {calculateHedging(a.baselineExpense, a.adverseExpense, a.hedgeRatio,
                                  a.yesPrice, a.feeRate)} })

\* the body of the month loop for one value u of Math.random()
MonthStep(u, totals, a) ==
    The({ IF eventOccurs
          THEN [hedgedTotal   |-> FAdd(totals.hedgedTotal, h.hedgedOutcomeIfEventTrue),
                unhedgedTotal |-> FAdd(totals.unhedgedTotal, h.unhedgedOutcomeIfEventTrue),
                eventOccurs   |-> TRUE]
          ELSE [hedgedTotal   |-> FAdd(totals.hedgedTotal, h.hedgedOutcomeIfEventFalse),
                unhedgedTotal |-> FAdd(totals.unhedgedTotal, h.unhedgedOutcomeIfEventFalse),
                eventOccurs   |-> FALSE]
        : eventOccurs \in {FLt(u, a.yesPrice)},
          h \in {calculateHedging(a.baselineExpense, a.adverseExpense, a.hedgeRatio,
                                  a.yesPrice, a.feeRate)} })

SimBeginRun ==
    /\ pc = "run"
    /\ RunLoopCond(run, args.runs)
    /\ hedgedTotal' = FInt(0)
    /\ unhedgedTotal' = FInt(0)
    /\ month' = 0
    /\ events' = <<>>
    /\ pc' = "month"
    /\ UNCHANGED <<pageVars, random, op, args, ret, run, hedgedResults, unhedgedResults, trials,
                   array, draws, opt>>

SimMonth ==
    /\ pc = "month"
    /\ MonthLoopCond(month, args.months)
    /\ \E u \in RandomValues(random, draws) :
          \E step \in {MonthStep(u, [hedgedTotal |-> hedgedTotal,
                                     unhedgedTotal |-> unhedgedTotal], args)} :
              /\ hedgedTotal' = step.hedgedTotal
              /\ unhedgedTotal' = step.unhedgedTotal
              /\ events' = Append(events, step.eventOccurs)
    /\ draws' = draws + 1
    /\ month' = month + 1
    /\ UNCHANGED <<pageVars, random, op, args, ret, pc, run, hedgedResults, unhedgedResults, trials,
                   array, opt>>

SimEndRun ==
    /\ pc = "month"
    /\ ~MonthLoopCond(month, args.months)
    /\ hedgedResults' = Append(hedgedResults, hedgedTotal)
    /\ unhedgedResults' = Append(unhedgedResults, unhedgedTotal)
    /\ trials' = Append(trials, [draws |-> Len(events),
                                 k |-> Cardinality({j \in 1..Len(events) : events[j]})])
    /\ run' = run + 1
    /\ pc' = "run"
    /\ UNCHANGED <<pageVars, random, op, args, ret, month, hedgedTotal, unhedgedTotal, events,
                   array, draws, opt>>

SimReturn ==
    /\ pc = "run"
    /\ ~RunLoopCond(run, args.runs)
    /\ ret' = Return([hedged |-> hedgedResults, unhedged |-> unhedgedResults])
    /\ pc' = "done"
    /\ UNCHANGED <<pageVars, random, op, args, simVars, array, draws, opt>>

NextSim ==
    \/ SimBeginRun
    \/ SimMonth
    \/ SimEndRun
    \/ SimReturn

SpecSim == InitSim /\ [][NextSim]_vars

\* ---- findOptimalHedgeRatio, one call per behaviour; its calls of
\* ---- runComparisonSimulation run as the steps of the simulator above

FindOptimal == "findOptimalHedgeRatio"

InitOpt ==
    /\ op = FindOptimal
    /\ \E b \in OptBaselines, a \in OptAdverses, shape \in OptShapes, steps \in 1..MaxSteps :
          /\ FEq(b, FInt(0)) => (a = FInt(150) /\ shape = <<1, 1>>)
          /\ a = FInt(100) => shape[1] * shape[2] <= 1
          /\ shape[1] * shape[2] * (steps + 2) <= MaxDraws
          /\ shape[2] * (steps + 2) <= MaxTotals
          /\ args = [baselineExpense |-> b, adverseExpense |-> a,
                  yesPrice |-> SimYesPrice, months |-> FInt(shape[1]),
                  feeRate |-> SimFeeRate, steps |-> steps, runs |-> shape[2]]
    /\ ret = <<>>
    /\ pc = "call"
    /\ SimEntry
    /\ array = <<>>
    /\ draws = 0
    /\ random = "any"
    /\ opt = NoFrame
    /\ Mounted

\* the call runComparisonSimulation(baselineExpense, adverseExpense, ratio,
\* yesPrice, months, feeRate, runs) of the optimizer with arguments a
CallSimulation(a, ratio) ==
    /\ op' = "runComparisonSimulation"
    /\ args' = [baselineExpense |-> a.baselineExpense, adverseExpense |-> a.adverseExpense,
                hedgeRatio |-> ratio, yesPrice |-> a.yesPrice, months |-> a.months,
                feeRate |-> a.feeRate, runs |-> a.runs]
    /\ ret' = <<>>
    /\ pc' = "run"
    /\ run' = 0
    /\ month' = 0
    /\ hedgedTotal' = FInt(0)
    /\ unhedgedTotal' = FInt(0)
    /\ hedgedResults' = <<>>
    /\ unhedgedResults' = <<>>
    /\ events' = <<>>
    /\ trials' = <<>>

\* findOptimalHedgeRatio leaves with value r
OptLeave(r) ==
    /\ op' = FindOptimal
    /\ args' = opt.args
    /\ ret' = r
    /\ pc' = "done"
    /\ UNCHANGED <<pageVars, random, simVars, array, draws>>

\* lines 189-208: the best-so-far locals, and the call of the simulation with
\* hedge ratio 0
OptBegin ==
    /\ op = FindOptimal
    /\ pc = "call"
    /\ opt' = [pc              |-> "baseline",
               args            |-> args,
               i               |-> 0,
               bestRatio       |-> FInt(0),
               bestRiskScore   |-> Inf(1),
               bestMetrics     |-> [winPercentage        |-> FInt(0),
                                    worstCaseImprovement |-> FInt(0),
                                    volatilityReduction  |-> FInt(0),
                                    sharpeRatio          |-> Inf(1),
                                    maxDrawdownReduction |-> FInt(0)],
               unhedgedResults |-> <<>>,
               unhedgedStats   |-> <<>>,
               candidates      |-> <<>>,
               calls           |-> <<>>]
    /\ CallSimulation(args, FInt(0))
    /\ UNCHANGED <<pageVars, random, array, draws>>

\* lines 200-210: the simulation returns, its unhedged totals are kept and
\* their statistics taken; calculateStats throwing ends the call
OptBaseline ==
    /\ opt.pc = "baseline"
    /\ op = "runComparisonSimulation"
    /\ pc = "done"
    /\ \E stats \in {calculateStats(ret.value.unhedged)} :
          IF stats.kind = "throw"
          THEN /\ OptLeave(stats)
               /\ opt' = [opt EXCEPT !.pc = "thrown", !.calls = Append(@, draws)]
          ELSE /\ opt' = [opt EXCEPT !.pc = "sweep",
                                     !.unhedgedResults = ret.value.unhedged,
                                     !.unhedgedStats = stats.value,
                                     !.calls = Append(@, draws)]
               /\ pc' = "sweep"
               /\ UNCHANGED <<pageVars, random, op, args, ret, simVars, array, draws>>

\* lines 213-225: the next candidate's ratio and the call of its simulation
OptCandidate ==
    /\ opt.pc = "sweep"
    /\ pc = "sweep"
    /\ SweepCond(opt.i, opt.args.steps)
    /\ opt' = [opt EXCEPT !.pc = "candidate"]
    /\ CallSimulation(opt.args, CandidateRatio(opt.i, opt.args.steps))
    /\ UNCHANGED <<pageVars, random, array, draws>>

\* the best-so-far locals after the candidate with these metrics (lines 276-286)
Updated(frame, ratio, m) ==
    IF Better(m.riskScore, frame.bestRiskScore)
    THEN [frame EXCEPT !.bestRiskScore = m.riskScore,
                       !.bestRatio = ratio,
                       !.bestMetrics = [winPercentage        |-> m.winPercentage,
                                        worstCaseImprovement |-> m.worstCaseImprovement,
                                        volatilityReduction  |-> m.volatilityReduction,
                                        sharpeRatio          |-> m.sharpeRatio,
                                        maxDrawdownReduction |-> m.maxDrawdownReduction]]
    ELSE frame

\* lines 227-287: the candidate's simulation returns, its metrics and score
\* are computed, the best so far is updated, i++
OptScore ==
    /\ opt.pc = "candidate"
    /\ op = "runComparisonSimulation"
    /\ pc = "done"
    /\ \E stats \in {calculateStats(ret.value.hedged)} :
          IF stats.kind = "throw"
          THEN /\ OptLeave(stats)
               /\ opt' = [opt EXCEPT !.pc = "thrown", !.calls = Append(@, draws)]
          ELSE \E m \in {CandidateMetrics(ret.value, stats.value, opt.unhedgedResults,
                                          opt.unhedgedStats, opt.args.runs)} :
                 /\ opt' = [Updated(opt, args.hedgeRatio, m)
                               EXCEPT !.pc = "sweep",
                                      !.i = @ + 1,
                                      !.candidates =
                                          Append(@, [ratio    |-> args.hedgeRatio,
                                                     hedged   |-> ret.value.hedged,
                                                     unhedged |-> ret.value.unhedged,
                                                     metrics  |-> m]),
                                      !.calls = Append(@, draws)]
                 /\ pc' = "sweep"
                 /\ UNCHANGED <<pageVars, random, op, args, ret, simVars, array, draws>>

\* lines 289-293: the sweep is over
OptReturn ==
    /\ opt.pc = "sweep"
    /\ pc = "sweep"
    /\ ~SweepCond(opt.i, opt.args.steps)
    /\ OptLeave(Return([optimalRatio         |-> opt.bestRatio,
                        riskScore            |-> opt.bestRiskScore,
                        winPercentage        |-> opt.bestMetrics.winPercentage,
                        worstCaseImprovement |-> opt.bestMetrics.worstCaseImprovement,
                        volatilityReduction  |-> opt.bestMetrics.volatilityReduction,
                        sharpeRatio          |-> opt.bestMetrics.sharpeRatio,
                        maxDrawdownReduction |-> opt.bestMetrics.maxDrawdownReduction]))
    /\ opt' = [opt EXCEPT !.pc = "returned"]

NextOpt ==
    \/ OptBegin
    \/ SimBeginRun
    \/ SimMonth
    \/ SimEndRun
    \/ SimReturn
    \/ OptBaseline
    \/ OptCandidate
    \/ OptScore
    \/ OptReturn

SpecOpt == InitOpt /\ [][NextOpt]_vars

\* ---- findOptimalEmotionalHedgeRatio, one call per behaviour, one step per
\* ---- draw

FindOptimalEmotional == "findOptimalEmotionalHedgeRatio"

InitEmo ==
    /\ op = FindOptimalEmotional
    /\ \E s \in EmoScenarios :
          /\ args = [ticketCost |-> FInt(75), desiredConsolation |-> s.desiredConsolation,
                     yesPrice |-> s.yesPrice, feeRate |-> SimFeeRate]
          /\ random = s.random
    /\ ret = <<>>
    /\ pc = "call"
    /\ SimEntry
    /\ array = <<>>
    /\ draws = 0
    /\ opt = NoFrame
    /\ Mounted

\* lines 359-370: the best-so-far locals and the first ratio
EmoBegin ==
    /\ op = FindOptimalEmotional
    /\ pc = "call"
    /\ opt' = [pc               |-> "emotional",
               ratio            |-> EmoFirstRatio,
               bestRatio        |-> Dec(5, 10),
               bestScore        |-> Inf(1),
               bestMetrics      |-> [worstCaseImprovement |-> FInt(0),
                                     volatilityReduction  |-> FInt(0),
                                     maxDrawdownReduction |-> FInt(0),
                                     winPercentage        |-> FInt(0),
                                     sharpeRatio          |-> FInt(0)],
               hedging          |-> <<>>,
               i                |-> 0,
               hedgedOutcomes   |-> <<>>,
               unhedgedOutcomes |-> <<>>,
               ratios           |-> <<>>,
               firstScore       |-> <<>>,
               sameScores       |-> TRUE]
    /\ pc' = "ratio"
    /\ UNCHANGED <<pageVars, random, op, args, ret, simVars, array, draws>>

\* lines 373-379: the loop test passes; the candidate's hedging record and its
\* empty outcome arrays
EmoRatio ==
    /\ op = FindOptimalEmotional
    /\ pc = "ratio"
    /\ EmoSweepCond(opt.ratio)
    /\ opt' = [opt EXCEPT !.hedging = calculateEmotionalHedging(
                                          args.ticketCost, args.desiredConsolation,
                                          opt.ratio, args.yesPrice, args.feeRate),
                          !.i = 0,
                          !.hedgedOutcomes = <<>>,
                          !.unhedgedOutcomes = <<>>,
                          !.ratios = Append(@, opt.ratio)]
    /\ pc' = "outcome"
    /\ UNCHANGED <<pageVars, random, op, args, ret, simVars, array, draws>>

\* the outcome pushed for the value u of Math.random(): the hedged one and the
\* unhedged one (lines 382-390)
EmoOutcome(hedging, yesPrice, u) ==
    IF FLt(u, yesPrice)
    THEN [hedged |-> hedging.outcomeIfTeamLoses,
          unhedged |-> hedging.unhedgedOutcomeIfTeamLoses]
    ELSE [hedged |-> hedging.outcomeIfTeamWins,
          unhedged |-> hedging.unhedgedOutcomeIfTeamWins]

\* lines 381-391: the loop of the numSims simulated outcomes of the candidate,
\* one Math.random() call each, what it returns decided by the rule random
EmoOutcomes ==
    /\ op = FindOptimalEmotional
    /\ pc = "outcome"
    /\ opt.i < numSims
    /\ random \in EmoRandoms
    /\ opt' = [opt EXCEPT
                  !.i = numSims,
                  !.hedgedOutcomes =
                      @ \o [j \in 1..numSims - opt.i |->
                               EmoOutcome(opt.hedging, args.yesPrice,
                                          The(RandomValues(random, draws + j - 1))).hedged],
                  !.unhedgedOutcomes =
                      @ \o [j \in 1..numSims - opt.i |->
                               EmoOutcome(opt.hedging, args.yesPrice,
                                          The(RandomValues(random, draws + j - 1))).unhedged]]
    /\ draws' = draws + (numSims - opt.i)
    /\ UNCHANGED <<pageVars, random, op, args, ret, pc, simVars, array>>

\* the frame after the candidate c of the current ratio (lines 414-424, and
\* ratio += 0.05)
EmoUpdated(frame, c) ==
    [(IF Better(c.riskScore, frame.bestScore)
      THEN [frame EXCEPT !.bestScore = c.riskScore,
                         !.bestRatio = frame.ratio,
                         !.bestMetrics = c.metrics]
      ELSE frame)
     EXCEPT !.ratio = EmoNextRatio(frame.ratio),
            !.firstScore = IF Len(frame.ratios) = 1 THEN c.riskScore ELSE @,
            !.sameScores = Len(frame.ratios) = 1 \/ (@ /\ c.riskScore = frame.firstScore)]

\* lines 393-424: the candidate's statistics, metrics and score; the best so
\* far is updated; the next ratio
EmoScore ==
    /\ op = FindOptimalEmotional
    /\ pc = "outcome"
    /\ ~(opt.i < numSims)
    /\ \E c \in {EmoCandidate(opt.hedging, opt.hedgedOutcomes, opt.unhedgedOutcomes)} :
          opt' = EmoUpdated(opt, c)
    /\ pc' = "ratio"
    /\ UNCHANGED <<pageVars, random, op, args, ret, simVars, array, draws>>

\* lines 427-431: the sweep is over
EmoReturn ==
    /\ op = FindOptimalEmotional
    /\ pc = "ratio"
    /\ ~EmoSweepCond(opt.ratio)
    /\ ret' = Return([optimalRatio         |-> opt.bestRatio,
                      riskScore            |-> opt.bestScore,
                      worstCaseImprovement |-> opt.bestMetrics.worstCaseImprovement,
                      volatilityReduction  |-> opt.bestMetrics.volatilityReduction,
                      maxDrawdownReduction |-> opt.bestMetrics.maxDrawdownReduction,
                      winPercentage        |-> opt.bestMetrics.winPercentage,
                      sharpeRatio          |-> opt.bestMetrics.sharpeRatio])
    /\ pc' = "done"
    /\ UNCHANGED <<pageVars, random, op, args, simVars, array, draws, opt>>

NextEmo ==
    \/ EmoBegin
    \/ EmoRatio
    \/ EmoOutcomes
    \/ EmoScore
    \/ EmoReturn

SpecEmo == InitEmo /\ [][NextEmo]_vars

\* ---- the page: Home, ExpenseForm and useSimulation, one step per user
\* ---- event or timer callback

\* the call the scheduled optimization makes, from the values the click read
OptimizerCall(c) ==
    IF c.hedgeMode = "expense"
    THEN [fn   |-> FindOptimal,
          args |-> [baselineExpense |-> c.baselineExpense,
                    adverseExpense  |-> c.adverseExpense,
                    yesPrice        |-> c.yesPrice,
                    months          |-> c.monthsToHedge,
                    feeRate         |-> FDiv(c.feeRate, FInt(100))]]
    ELSE [fn   |-> FindOptimalEmotional,
          args |-> [ticketCost         |-> c.baselineExpense,
                    desiredConsolation |-> c.adverseExpense,
                    yesPrice           |-> c.yesPrice,
                    feeRate            |-> FDiv(c.feeRate, FInt(100))]]

\* the Math.random() calls of the call the scheduled optimization makes.
\* findOptimalHedgeRatio, with the default steps and runs, simulates the
\* unhedged baseline once and then the candidate of each of the steps + 1
\* swept ratios: steps + 2 simulations of runs trials, each trial with one
\* call for each month. findOptimalEmotionalHedgeRatio draws numSims outcomes
\* for each swept ratio
OptimizerDraws(call) ==
    IF call.fn = FindOptimal
    THEN (DefaultSteps + 2) * DefaultRuns * MonthCount(call.args.months)
    ELSE Len(EmoRatios) * numSims

\* how the try block of the scheduled optimization can end at its alert: the
\* optimizer has returned, with any one of the ratios it sweeps as
\* optimalRatio (which one is decided by the outcomes of its Math.random()
\* calls), or an exception has been thrown, before the first of these calls
\* or after the last
Outcomes(c) ==
    The({ {[kind |-> "return", optimalRatio |-> r, draws |-> OptimizerDraws(call)]
              : r \in IF call.fn = FindOptimal THEN ExpenseRatios ELSE EmotionRatios}
          \cup {[kind |-> "throw", draws |-> n] : n \in {0, OptimizerDraws(call)}}
        : call \in {OptimizerCall(c)} })

InitPage ==
    /\ op = "none"
    /\ args = <<>>
    /\ ret = <<>>
    /\ pc = "idle"
    /\ SimEntry
    /\ array = <<>>
    /\ draws = 0
    /\ random = "any"
    /\ opt = NoFrame
    /\ Mounted

\* the user changes an input
Change(name, value) ==
    /\ UserEvent
    /\ formValues' = [formValues EXCEPT ![name] = value]
    /\ UNCHANGED <<engineVars, hedgeMode, isOptimizing, formData, simulationResults,
                   timeouts, alerted, callback>>

\* lines 73-84 and 102-113: one of the two mode buttons
SelectMode(mode) ==
    /\ UserEvent
    /\ hedgeMode' = mode
    /\ formValues' = ModeValues(formValues, mode)
    /\ UNCHANGED <<engineVars, isOptimizing, formData, simulationResults, timeouts,
                   alerted, callback>>

\* the submit button: handleSubmit(onSubmit), setFormData and the render of
\* Home that follows. useMemo computes the results anew when one of its
\* dependencies, the hook's arguments, has changed since the last render;
\* when none has, React may return the results it has kept or compute them
\* anew, which makes the same fields and draws again
Submit ==
    /\ UserEvent
    /\ Valid(formValues)
    /\ formData' = formValues
    /\ \E a \in {HomeArguments(formValues)} :
          /\ simulationResults' = useSimulation(a)
          /\ \E computed \in (IF a = HomeArguments(formData) THEN BOOLEAN ELSE {TRUE}) :
                draws' = IF computed THEN draws + HookDraws(a) ELSE draws
    /\ UNCHANGED <<op, args, ret, pc, simVars, array, random, opt>>
    /\ UNCHANGED <<formValues, hedgeMode, isOptimizing, timeouts, alerted, callback>>

\* lines 355-441 up to setTimeout: a click on the optimize button, which is
\* disabled while isOptimizing. The alert of a failed check is the handler's
\* last effect: the handler returns when it is closed, so the step includes
\* its closing
ClickOptimize ==
    /\ UserEvent
    /\ ~isOptimizing
    /\ \E message \in {OptimizeAlert(
                          [formValues EXCEPT !.monthsToHedge = Or(@, FInt(1))], hedgeMode)} :
          IF message # ""
          THEN /\ alerted' = message
               /\ UNCHANGED <<isOptimizing, timeouts>>
          ELSE /\ isOptimizing' = TRUE
               /\ timeouts' = Append(timeouts,
                     [formValues EXCEPT !.monthsToHedge = Or(@, FInt(1)),
                                        !.hedgeMode = hedgeMode])
               /\ UNCHANGED alerted
    /\ UNCHANGED <<engineVars, formValues, hedgeMode, formData, simulationResults,
                   callback>>

\* lines 375-435: the browser runs the scheduled optimization, up to the
\* alert of its try block or of its catch clause. The optimizer makes its
\* Math.random() calls; when it has returned, setValue puts optimalRatio * 100
\* into the form. alert() then blocks: isOptimizing stays as it is
Timeout ==
    /\ timeouts # <<>>
    /\ callback = NoFrame
    /\ timeouts' = Tail(timeouts)
    /\ \E c \in {Head(timeouts)} : \E outcome \in Outcomes(c) :
          /\ draws' = draws + outcome.draws
          /\ IF outcome.kind = "return"
             THEN /\ formValues' = [formValues EXCEPT !.hedgeCoverage =
                                       FMul(outcome.optimalRatio, FInt(100))]
                  /\ alerted' = ResultMessage(c.hedgeMode)
             ELSE /\ alerted' = ErrorMessage(c.hedgeMode)
                  /\ UNCHANGED formValues
          /\ callback' = [pc |-> "alert", kind |-> outcome.kind]
    /\ UNCHANGED <<op, args, ret, pc, simVars, array, random, opt>>
    /\ UNCHANGED <<hedgeMode, isOptimizing, formData, simulationResults, userEvents>>

\* lines 404, 432, 435 and 437-439: the user closes the alert of the
\* scheduled optimization; alert() returns and the finally clause runs
Dismiss ==
    /\ callback # NoFrame
    /\ callback' = NoFrame
    /\ isOptimizing' = OptimizingAfter(callback)
    /\ UNCHANGED <<engineVars, formValues, hedgeMode, formData, simulationResults,
                   timeouts, alerted, userEvents>>

NextPage ==
    \/ \E name \in DOMAIN FormInputs : \E value \in FormInputs[name] : Change(name, value)
    \/ \E mode \in {"expense", "emotion"} : SelectMode(mode)
    \/ Submit
    \/ ClickOptimize
    \/ Timeout
    \/ Dismiss

SpecPage == InitPage /\ [][NextPage]_vars

\* a scheduled callback leaves the timer queue and starts: what the step
\* Timeout, and no other step, does to timeouts
TimeoutRuns ==
    /\ timeouts # <<>>
    /\ callback = NoFrame
    /\ timeouts' = Tail(timeouts)

\* the browser runs a scheduled timeout: setTimeout's callback starts once its
\* 10 ms have passed. Nothing makes the user close the alert it ends in, so
\* Dismiss has no fairness condition
SpecPageFair == SpecPage /\ WF_timeouts(TimeoutRuns)

\* -------------------------------------------------------------------------
\* Claims
\* -------------------------------------------------------------------------

Done(name) ==
    op = name /\ pc = "done"

Returned(name) ==
    Done(name) /\ ret.kind = "return"

Elements(seq) ==
    {seq[i] : i \in 1..Len(seq)}

\* C1: calculateStats called with an empty sample array throws and returns no
\* statistics record; a record it does return never has a NaN mean.
C1_EmptySampleThrows ==
    Done("calculateStats") =>
        /\ args.results = <<>> => ret.kind = "throw"
        /\ ret.kind = "return" => args.results # <<>> /\ ~IsNaN(ret.value.mean)

C1_Witness ==
    Done("calculateStats") /\ args.results = <<>> /\ ret.kind = "throw"

\* C2: for every non-empty sample, whatever its order, percentile(samples, 0) is
\* the minimum element and percentile(samples, 100) the maximum element.
C2_PercentileEnds ==
    (Returned("percentile") /\ args.arr # <<>>) =>
        /\ FEq(args.p, FInt(0)) =>
              /\ ret.value \in Elements(args.arr)
              /\ \A x \in Elements(args.arr) : FLe(ret.value, x)
        /\ FEq(args.p, FInt(100)) =>
              /\ ret.value \in Elements(args.arr)
              /\ \A x \in Elements(args.arr) : FGe(ret.value, x)

\* a sample of three whose maximum comes first and whose minimum is in the middle
C2_Witness ==
    /\ Returned("percentile")
    /\ FEq(args.p, FInt(100))
    /\ Len(args.arr) = 3
    /\ FGt(args.arr[1], args.arr[3])
    /\ FGt(args.arr[3], args.arr[2])
    /\ ret.value = args.arr[1]

IsConstantSample(results) ==
    results # <<>> /\ \A i \in 1..Len(results) : results[i] = results[1]

\* C3: for a constant-valued sample of length >= 1 with value c, calculateStats
\* returns mean = median = worstCase10 = c, and probabilityPositive = 1 when
\* c > 0 and 0 when c <= 0.
C3_ConstantSample ==
    (Done("calculateStats") /\ IsConstantSample(args.results)) =>
        LET c == args.results[1]
        IN  /\ ret.kind = "return"
            /\ FEq(ret.value.mean, c)
            /\ FEq(ret.value.median, c)
            /\ FEq(ret.value.worstCase10, c)
            /\ FEq(ret.value.probabilityPositive,
                   IF FGt(c, Zero(0)) THEN FInt(1) ELSE FInt(0))

\* C4: for feeRate # 1, calculateHedging returns
\* shares = (adverse - baseline) * hedgeRatio / (1 - feeRate), premium = shares * price,
\* hedgedOutcomeIfEventTrue = -adverse - premium + shares * (1 - feeRate),
\* hedgedOutcomeIfEventFalse = -baseline - premium, unhedgedOutcomeIfEventTrue =
\* -adverse and unhedgedOutcomeIfEventFalse = -baseline.
C4_HedgingFormulas ==
    (Returned("calculateHedging") /\ ~FEq(args.feeRate, FInt(1))) =>
        LET baseline == args.baselineExpense
            adverse  == args.adverseExpense
            fee      == args.feeRate
            r        == ret.value
        IN  /\ r.shares = FDiv(FMul(FSub(adverse, baseline), args.hedgeRatio),
                               FSub(FInt(1), fee))
            /\ r.premium = FMul(r.shares, args.yesPrice)
            /\ r.hedgedOutcomeIfEventTrue =
                  FAdd(FSub(FNeg(adverse), r.premium), FMul(r.shares, FSub(FInt(1), fee)))
            /\ r.hedgedOutcomeIfEventFalse = FSub(FNeg(baseline), r.premium)
            /\ r.unhedgedOutcomeIfEventTrue = FNeg(adverse)
            /\ r.unhedgedOutcomeIfEventFalse = FNeg(baseline)

\* calculateHedging(100, 120, 0.8, 0.35, 0.02): shares is about 16.3265 and the
\* hedged outcome with the event about -109.714
C4_Witness ==
    /\ Returned("calculateHedging")
    /\ args = [baselineExpense |-> FInt(100), adverseExpense |-> FInt(120),
               hedgeRatio |-> Dec(8, 10), yesPrice |-> Dec(35, 100), feeRate |-> Dec(2, 100)]
    /\ FLt(Dec(163265, 10000), ret.value.shares)
    /\ FLt(ret.value.shares, Dec(163266, 10000))
    /\ FLt(Dec(-109715, 1000), ret.value.hedgedOutcomeIfEventTrue)
    /\ FLt(ret.value.hedgedOutcomeIfEventTrue, Dec(-109714, 1000))

\* C5: for hedgeRatio = 0 and feeRate # 1, calculateHedging returns shares = 0
\* and premium = 0, and the hedged outcome equals the unhedged outcome in the
\* event-true and in the event-false branch.
C5_ZeroRatio ==
    (Returned("calculateHedging") /\ FEq(args.hedgeRatio, FInt(0))
        /\ ~FEq(args.feeRate, FInt(1))) =>
        /\ FEq(ret.value.shares, FInt(0))
        /\ FEq(ret.value.premium, FInt(0))
        /\ FEq(ret.value.hedgedOutcomeIfEventTrue, ret.value.unhedgedOutcomeIfEventTrue)
        /\ FEq(ret.value.hedgedOutcomeIfEventFalse, ret.value.unhedgedOutcomeIfEventFalse)

C5_Witness ==
    /\ Returned("calculateHedging")
    /\ FEq(args.hedgeRatio, FInt(0))
    /\ FGt(args.adverseExpense, args.baselineExpense)
    /\ FGt(args.yesPrice, FInt(0))
    /\ FGt(args.feeRate, FInt(0)) /\ FLt(args.feeRate, FInt(1))
    /\ FEq(ret.value.hedgedOutcomeIfEventTrue, FNeg(args.adverseExpense))

\* C6: for hedgeRatio = 0, whatever the draws, runComparisonSimulation returns
\* hedged[i] = unhedged[i] at every trial index i.
C6_ZeroRatioSimulation ==
    (op = "runComparisonSimulation" /\ FEq(args.hedgeRatio, FInt(0))) =>
        /\ \A i \in 1..Len(hedgedResults) : FEq(hedgedResults[i], unhedgedResults[i])
        /\ pc = "done" =>
              /\ Len(ret.value.hedged) = Len(ret.value.unhedged)
              /\ \A i \in 1..Len(ret.value.hedged) :
                    FEq(ret.value.hedged[i], ret.value.unhedged[i])

\* two trials of three months, one of them with draws on both sides of the price
C6_Witness ==
    /\ Returned("runComparisonSimulation")
    /\ FEq(args.hedgeRatio, FInt(0))
    /\ FGt(args.adverseExpense, args.baselineExpense)
    /\ Len(ret.value.hedged) = 2
    /\ \E i \in 1..2 : trials[i].draws = 3 /\ trials[i].k = 1
    /\ ret.value.hedged[1] # ret.value.hedged[2]

\* C7: when baselineExpense equals adverseExpense, for any hedgeRatio and any
\* draws, runComparisonSimulation returns |hedged[i] - unhedged[i]| < 0.01 at
\* every paired index i.
C7_NoExposureSimulation ==
    (Returned("runComparisonSimulation")
        /\ FEq(args.baselineExpense, args.adverseExpense)) =>
        /\ Len(ret.value.hedged) = Len(ret.value.unhedged)
        /\ \A i \in 1..Len(ret.value.hedged) :
              FLt(FAbs(FSub(ret.value.hedged[i], ret.value.unhedged[i])), Dec(1, 100))

C7_Witness ==
    /\ Returned("runComparisonSimulation")
    /\ FEq(args.baselineExpense, args.adverseExpense)
    /\ FGt(args.hedgeRatio, FInt(0))
    /\ Len(ret.value.hedged) = 2
    /\ \E i \in 1..2 : trials[i].draws = 3 /\ trials[i].k = 2

\* the numerator of the share count
Exposure(a) ==
    FMul(FSub(a.adverseExpense, a.baselineExpense), a.hedgeRatio)

HedgingAtFee(a, fee) ==
    calculateHedging(a.baselineExpense, a.adverseExpense, a.hedgeRatio, a.yesPrice, fee)

LargerFees(fee) ==
    {g \in FeeRates : FLt(fee, g) /\ FLt(g, FInt(1))}

\* C8 (as stated): with baseline, adverse, hedgeRatio and price fixed, a larger
\* feeRate (both below 1) yields a strictly larger shares value and a strictly
\* larger premium value.
C8_Original ==
    (Returned("calculateHedging") /\ FLt(args.feeRate, FInt(1))) =>
        \A g \in LargerFees(args.feeRate) :
            /\ FGt(HedgingAtFee(args, g).shares, ret.value.shares)
            /\ FGt(HedgingAtFee(args, g).premium, ret.value.premium)

\* C8 (amended): a larger feeRate (both below 1, at least 0.001 apart) yields a
\* strictly larger shares value when (adverse - baseline) * hedgeRatio > 0, and a
\* strictly larger premium value when the price is positive as well; when the
\* product is 0 the shares and the premium are 0 at every fee, and when the
\* product is negative the shares are strictly smaller.
C8_FeeMonotoneOnPositiveExposure ==
    (Returned("calculateHedging") /\ FLt(args.feeRate, FInt(1))) =>
        \A g \in LargerFees(args.feeRate) :
            LET hi == HedgingAtFee(args, g)
            IN  /\ FGt(Exposure(args), FInt(0)) =>
                      /\ FGt(hi.shares, ret.value.shares)
                      /\ FGt(args.yesPrice, FInt(0)) => FGt(hi.premium, ret.value.premium)
                      /\ FEq(args.yesPrice, FInt(0)) => FEq(hi.premium, ret.value.premium)
                /\ FEq(Exposure(args), FInt(0)) =>
                      /\ FEq(hi.shares, FInt(0)) /\ FEq(ret.value.shares, FInt(0))
                      /\ FEq(hi.premium, FInt(0)) /\ FEq(ret.value.premium, FInt(0))
                /\ FLt(Exposure(args), FInt(0)) => FLt(hi.shares, ret.value.shares)

\* calculateHedging(100, 120, 0.8, 0.35, 0): the fee-free call of a positive
\* exposure, with five larger fees to compare with
C8_Witness ==
    /\ Returned("calculateHedging")
    /\ FEq(args.feeRate, FInt(0))
    /\ FGt(Exposure(args), FInt(0))
    /\ FGt(args.yesPrice, FInt(0))
    /\ Cardinality(LargerFees(args.feeRate)) >= 4
    /\ FEq(ret.value.shares, Exposure(args))

\* C9: runComparisonSimulation called with runs = n returns a hedged and an
\* unhedged sequence of length exactly n, for every n >= 0 and every months.
C9_ResultLengths ==
    Done("runComparisonSimulation") =>
        /\ ret.kind = "return"
        /\ Len(ret.value.hedged) = args.runs
        /\ Len(ret.value.unhedged) = args.runs

\* two runs with a months value that is no integer
C9_Witness ==
    /\ Returned("runComparisonSimulation")
    /\ args.runs = 2
    /\ args.months = Dec(3, 2)
    /\ Len(ret.value.hedged) = 2

\* months is an integer >= 0
IsCount(months) ==
    IsFinite(months) /\ FGe(months, FInt(0)) /\ FEq(months, FFloor(months))

\* k * whenTrue + (n - k) * whenFalse
ClosedForm(k, n, whenTrue, whenFalse) ==
    FAdd(FMul(FInt(k), whenTrue), FMul(FInt(n - k), whenFalse))

\* the total the loop accumulates from 0 over the events, in their order
RECURSIVE Accumulated(_, _, _, _)
Accumulated(total, evs, whenTrue, whenFalse) ==
    IF evs = <<>> THEN total
    ELSE Accumulated(FAdd(total, IF Head(evs) THEN whenTrue ELSE whenFalse),
                     Tail(evs), whenTrue, whenFalse)

\* C10 (as stated): every trial i consumes exactly `months` draws, and with k the
\* number of its draws below yesPrice, unhedged[i] = k * unhedgedOutcomeIfEventTrue
\* + (months - k) * unhedgedOutcomeIfEventFalse and hedged[i] = k *
\* hedgedOutcomeIfEventTrue + (months - k) * hedgedOutcomeIfEventFalse.
C10_Original ==
    (Returned("runComparisonSimulation") /\ IsCount(args.months)) =>
        LET h == HedgingAtFee(args, args.feeRate)
            n == FToInt(args.months)
        IN  \A i \in 1..Len(ret.value.hedged) :
                /\ trials[i].draws = n
                /\ trials[i].k \in 0..n
                /\ FEq(ret.value.unhedged[i],
                       ClosedForm(trials[i].k, n, h.unhedgedOutcomeIfEventTrue,
                                  h.unhedgedOutcomeIfEventFalse))
                /\ FEq(ret.value.hedged[i],
                       ClosedForm(trials[i].k, n, h.hedgedOutcomeIfEventTrue,
                                  h.hedgedOutcomeIfEventFalse))

\* C10 (amended): every trial consumes exactly `months` draws, k of them below
\* yesPrice with k in 0..months, and its two totals are the sums accumulated from
\* 0, in draw order, of the event-true outcome for each draw below yesPrice and of
\* the event-false outcome for each other draw.  The totals are the closed forms
\* k * ifTrue + (months - k) * ifFalse exactly when months <= 2 (for months = 1:
\* one of the two outcomes of calculateHedging), and to within rounding otherwise.
C10_TotalsAreAccumulatedOutcomes ==
    (op = "runComparisonSimulation" /\ IsCount(args.months)) =>
        LET h == HedgingAtFee(args, args.feeRate)
            n == FToInt(args.months)
        IN  /\ (pc = "run" /\ run >= 1) =>
                  /\ Len(events) = n
                  /\ trials[run].draws = n
                  /\ trials[run].k = Cardinality({j \in 1..n : events[j]})
                  /\ hedgedResults[run] =
                        Accumulated(FInt(0), events, h.hedgedOutcomeIfEventTrue,
                                    h.hedgedOutcomeIfEventFalse)
                  /\ unhedgedResults[run] =
                        Accumulated(FInt(0), events, h.unhedgedOutcomeIfEventTrue,
                                    h.unhedgedOutcomeIfEventFalse)
            /\ \A i \in 1..Len(trials) :
                  trials[i].draws = n /\ trials[i].k \in 0..n
            /\ pc = "done" =>
                  /\ ret.value.hedged = hedgedResults
                  /\ ret.value.unhedged = unhedgedResults
                  /\ Len(ret.value.hedged) = Len(trials)
                  /\ \A i \in 1..Len(ret.value.hedged) :
                        LET hc == ClosedForm(trials[i].k, n, h.hedgedOutcomeIfEventTrue,
                                             h.hedgedOutcomeIfEventFalse)
                            uc == ClosedForm(trials[i].k, n, h.unhedgedOutcomeIfEventTrue,
                                             h.unhedgedOutcomeIfEventFalse)
                        IN  /\ n <= 2 => /\ FEq(ret.value.hedged[i], hc)
                                         /\ FEq(ret.value.unhedged[i], uc)
                            /\ n = 1 =>
                                  /\ ret.value.unhedged[i] \in {FNeg(args.baselineExpense),
                                                                FNeg(args.adverseExpense)}
                                  /\ ret.value.hedged[i] \in {h.hedgedOutcomeIfEventTrue,
                                                              h.hedgedOutcomeIfEventFalse}
                            /\ FLt(FAbs(FSub(ret.value.hedged[i], hc)), Dec(1, 1000000000))
                            /\ FLt(FAbs(FSub(ret.value.unhedged[i], uc)), Dec(1, 1000000000))

\* a trial of three months whose hedged total is not the closed form
C10_Witness ==
    /\ Returned("runComparisonSimulation")
    /\ args.months = FInt(3)
    /\ \E i \in 1..Len(ret.value.hedged) :
          LET h == HedgingAtFee(args, args.feeRate)
          IN  /\ trials[i].draws = 3
              /\ trials[i].k \in 1..2
              /\ ~FEq(ret.value.hedged[i],
                      ClosedForm(trials[i].k, 3, h.hedgedOutcomeIfEventTrue,
                                 h.hedgedOutcomeIfEventFalse))
\* C15: with adverseExpense < baselineExpense nothing throws: calculateHedging
\* returns a negative shares value for a positive hedgeRatio, and
\* runComparisonSimulation returns `runs` hedged and `runs` unhedged totals.
C15_AdverseBelowBaseline ==
    (op = "runComparisonSimulation"
        /\ FLt(args.adverseExpense, args.baselineExpense)) =>
        /\ ret = <<>> \/ ret.kind = "return"
        /\ FGt(args.hedgeRatio, FInt(0)) =>
              LET h == HedgingAtFee(args, args.feeRate)
              IN  IsFinite(h.shares) /\ FLt(h.shares, FInt(0))
        /\ pc = "done" =>
              /\ ret.kind = "return"
              /\ Len(ret.value.hedged) = args.runs
              /\ Len(ret.value.unhedged) = args.runs

\* two trials of three months with adverse below the baseline and half of the
\* (negative) exposure hedged: a trial without events ends above its unhedged total
C15_Witness ==
    /\ Returned("runComparisonSimulation")
    /\ FLt(args.adverseExpense, args.baselineExpense)
    /\ FGt(args.hedgeRatio, FInt(0))
    /\ args.runs = 2
    /\ args.months = FInt(3)
    /\ Len(ret.value.hedged) = 2
    /\ \E i \in 1..2 : trials[i].k = 0 /\ FGt(ret.value.hedged[i], ret.value.unhedged[i])

\* C16: calculateEmotionalHedging returns shares = desiredConsolation *
\* hedgeRatio / (1 - feeRate), premium = shares * price, outcomeIfTeamLoses =
\* -entryCost + shares * (1 - feeRate) - premium, outcomeIfTeamWins = -entryCost -
\* premium, and both unhedged outcomes equal to -entryCost.
C16_EmotionalFormulas ==
    Done("calculateEmotionalHedging") =>
        /\ ret.kind = "return"
        /\ LET cost == args.ticketCost
               fee  == args.feeRate
               r    == ret.value
           IN  /\ r.shares = FDiv(FMul(args.desiredConsolation, args.hedgeRatio),
                                  FSub(FInt(1), fee))
               /\ r.premium = FMul(r.shares, args.yesPrice)
               /\ r.outcomeIfTeamLoses =
                     FSub(FAdd(FNeg(cost), FMul(r.shares, FSub(FInt(1), fee))), r.premium)
               /\ r.outcomeIfTeamWins = FSub(FNeg(cost), r.premium)
               /\ r.unhedgedOutcomeIfTeamWins = FNeg(cost)
               /\ r.unhedgedOutcomeIfTeamLoses = FNeg(cost)
               /\ r.unhedgedOutcomeIfTeamWins = r.unhedgedOutcomeIfTeamLoses

\* calculateEmotionalHedging(75, 200, 0.8, 0.35, 0.02): shares is about 163.265
\* and the outcome with the team losing about 27.857
C16_Witness ==
    /\ Returned("calculateEmotionalHedging")
    /\ args = [ticketCost |-> FInt(75), desiredConsolation |-> FInt(200),
               hedgeRatio |-> Dec(8, 10), yesPrice |-> Dec(35, 100), feeRate |-> Dec(2, 100)]
    /\ FLt(Dec(163265, 1000), ret.value.shares)
    /\ FLt(ret.value.shares, Dec(163266, 1000))
    /\ FLt(Dec(27857, 1000), ret.value.outcomeIfTeamLoses)
    /\ FLt(ret.value.outcomeIfTeamLoses, Dec(27858, 1000))

\* C17: percentile and calculateStats leave the caller's array unchanged: after
\* either call it has the same elements in the same order as before the call.
C17_InputUnchanged ==
    /\ Done("percentile") => array = args.arr
    /\ Done("calculateStats") => array = args.results

\* percentile of a sample of three that is not in ascending order
C17_Witness ==
    /\ Returned("percentile")
    /\ Len(args.arr) = 3
    /\ FGt(args.arr[1], args.arr[2])
    /\ FGt(args.arr[2], args.arr[3])
    /\ ret.value = args.arr[3]
    /\ array = args.arr

\* the optimizer's call has returned its result
OptReturned == op = FindOptimal /\ pc = "done" /\ opt.pc = "returned"

\* C11: with positive integer steps, runs and months, whatever the draws were,
\* the optimalRatio findOptimalHedgeRatio returns lies in [0, 1] and the
\* winPercentage it returns lies in [0, 100].
C11_RatioAndWinsInRange ==
    (OptReturned /\ args.steps >= 1 /\ args.runs >= 1 /\ FGe(args.months, FInt(1)))
        => /\ FGe(ret.value.optimalRatio, FInt(0))
           /\ FLe(ret.value.optimalRatio, FInt(1))
           /\ FGe(ret.value.winPercentage, FInt(0))
           /\ FLe(ret.value.winPercentage, FInt(100))

\* a sweep that returns the full hedge, which won every trial
C11_Witness ==
    /\ OptReturned
    /\ args.runs = 2
    /\ FEq(ret.value.optimalRatio, FInt(1))
    /\ FEq(ret.value.winPercentage, FInt(100))

\* the candidates evaluated so far, looked at between two simulations of the
\* sweep and at its end (while a simulation runs the frame does not change)
Candidates == IF opt.pc \in {"sweep", "returned"} THEN opt.candidates ELSE <<>>

\* C12: the riskScore findOptimalHedgeRatio returns is at least the riskScore
\* of the hedgeRatio = 0 candidate of the same sweep, and of every other
\* candidate evaluated in it. (During the sweep the same holds of the best
\* score so far.)
C12_ScoreIsMaximum ==
    /\ \A j \in 1..Len(Candidates) :
          FGe(opt.bestRiskScore, Candidates[j].metrics.riskScore)
    /\ OptReturned =>
          /\ Len(Candidates) >= 1
          /\ FEq(Candidates[1].ratio, FInt(0))
          /\ \A j \in 1..Len(Candidates) :
                FGe(ret.value.riskScore, Candidates[j].metrics.riskScore)

\* a sweep whose returned score is above the score of the hedgeRatio = 0
\* candidate and above the score of the last candidate
C12_Witness ==
    /\ OptReturned
    /\ Len(Candidates) = 3
    /\ FGt(ret.value.riskScore, Candidates[1].metrics.riskScore)
    /\ FGt(ret.value.riskScore, Candidates[3].metrics.riskScore)

\* the best-so-far locals of the frame
BestOf(frame) ==
    [ratio     |-> frame.bestRatio,
     riskScore |-> frame.bestRiskScore,
     metrics   |-> frame.bestMetrics]

\* ratio, score and the five metrics of an evaluated candidate
BundleOf(c) ==
    [ratio     |-> c.ratio,
     riskScore |-> c.metrics.riskScore,
     metrics   |-> [winPercentage        |-> c.metrics.winPercentage,
                    worstCaseImprovement |-> c.metrics.worstCaseImprovement,
                    volatilityReduction  |-> c.metrics.volatilityReduction,
                    sharpeRatio          |-> c.metrics.sharpeRatio,
                    maxDrawdownReduction |-> c.metrics.maxDrawdownReduction]]

\* what findOptimalHedgeRatio returned, in the same shape
ReturnedBundle ==
    [ratio     |-> ret.value.optimalRatio,
     riskScore |-> ret.value.riskScore,
     metrics   |-> [winPercentage        |-> ret.value.winPercentage,
                    worstCaseImprovement |-> ret.value.worstCaseImprovement,
                    volatilityReduction  |-> ret.value.volatilityReduction,
                    sharpeRatio          |-> ret.value.sharpeRatio,
                    maxDrawdownReduction |-> ret.value.maxDrawdownReduction]]

\* the first of the candidates with the greatest riskScore
FirstBest(cs) ==
    CHOOSE j \in 1..Len(cs) :
        /\ \A k \in 1..Len(cs) : FGe(cs[j].metrics.riskScore, cs[k].metrics.riskScore)
        /\ \A k \in 1..(j - 1) : FGt(cs[j].metrics.riskScore, cs[k].metrics.riskScore)

\* the best so far, and the returned value, are those of the first candidate
\* with the greatest score
C13_FirstBestKept ==
    /\ Len(Candidates) >= 1 => BestOf(opt) = BundleOf(Candidates[FirstBest(Candidates)])
    /\ OptReturned =>
          /\ ReturnedBundle = BundleOf(Candidates[FirstBest(Candidates)])
          /\ \A j \in 1..Len(Candidates) :
                FEq(Candidates[j].metrics.riskScore, ret.value.riskScore)
                    => FLe(ret.value.optimalRatio, Candidates[j].ratio)

\* a step that scores a candidate replaces the best so far by that candidate
\* exactly when its score is strictly greater; no other step touches it
C13_ReplacedOnlyWhenGreater ==
    IF opt.pc = "candidate" /\ opt'.pc = "sweep"
    THEN IF FGt(opt'.candidates[Len(opt'.candidates)].metrics.riskScore, opt.bestRiskScore)
         THEN BestOf(opt') = BundleOf(opt'.candidates[Len(opt'.candidates)])
         ELSE BestOf(opt') = BestOf(opt)
    ELSE (opt.pc # "none" /\ opt'.pc # "none") => BestOf(opt') = BestOf(opt)

\* C13: findOptimalHedgeRatio replaces its best-so-far candidate only when a
\* later candidate's riskScore is strictly greater, so among the candidates
\* with the greatest riskScore the one with the lowest ratio is returned, and
\* the returned optimalRatio, riskScore and five metrics all belong to that
\* one candidate.
C13_StrictReplacement ==
    /\ []C13_FirstBestKept
    /\ [][C13_ReplacedOnlyWhenGreater]_vars

\* a sweep of three candidates with the same score, returning ratio 0
C13_Witness ==
    /\ OptReturned
    /\ Len(Candidates) = 3
    /\ \A j \in 1..3 : FEq(Candidates[j].metrics.riskScore, ret.value.riskScore)
    /\ FEq(ret.value.optimalRatio, FInt(0))

\* C14: the worstCaseImprovement findOptimalHedgeRatio returns is greater than
\* or equal to 0: the chosen candidate's 10th-percentile outcome is never
\* worse than that of the unhedged baseline.
C14_WorstCaseImprovementNonNegative ==
    OptReturned => FGe(ret.value.worstCaseImprovement, FInt(0))

\* C18: findOptimalHedgeRatio evaluates exactly steps + 1 candidates, in
\* ascending order, the candidate i = 0..steps with ratio i / steps, so the
\* ratios 0 and 1 are both evaluated for every positive integer steps.
C18_SweepCoversZeroToOne ==
    /\ Len(Candidates) >= 1 =>
          /\ Len(Candidates) <= opt.args.steps + 1
          /\ \A j \in 1..Len(Candidates) :
                Candidates[j].ratio = FDiv(FInt(j - 1), FInt(opt.args.steps))
          /\ \A j \in 1..(Len(Candidates) - 1) :
                FLt(Candidates[j].ratio, Candidates[j + 1].ratio)
    /\ OptReturned =>
          /\ Len(Candidates) = args.steps + 1
          /\ FEq(Candidates[1].ratio, FInt(0))
          /\ FEq(Candidates[Len(Candidates)].ratio, FInt(1))

\* a finished sweep of two steps: the ratios 0, 0.5 and 1 in this order
C18_Witness ==
    /\ OptReturned
    /\ args.steps = 2
    /\ Len(Candidates) = 3
    /\ FEq(Candidates[2].ratio, Dec(5, 10))
    /\ args.runs = 2

\* the mean of a sequence of totals, as calculateStats takes it
MeanOf(values) ==
    FDiv(SumFrom(FInt(0), values), FInt(Len(values)))

\* the standard deviation of a sequence of totals around its own mean
StdDevOf(values, runs) ==
    StdDev(values, MeanOf(values), runs)

\* the two reductions of a hedged sequence measured against an unhedged one
VolatilityAgainst(hedged, unhedged, runs) ==
    Reduction(StdDevOf(unhedged, runs), StdDevOf(hedged, runs))

DrawdownAgainst(hedged, unhedged) ==
    Reduction(RangeOf(unhedged), RangeOf(hedged))

\* the candidate that the sweep has just scored (every candidate, in its turn)
JustScored == opt.pc = "sweep" /\ Len(opt.candidates) >= 1

Scored == opt.candidates[Len(opt.candidates)]

\* C19 as stated: at every candidate, volatilityReduction and
\* maxDrawdownReduction compare the candidate's hedged sequence against the
\* unhedged sequence of that same candidate's simulation call, each floored
\* at 0.
C19_Original ==
    JustScored =>
        /\ Scored.metrics.volatilityReduction =
              VolatilityAgainst(Scored.hedged, Scored.unhedged, opt.args.runs)
        /\ Scored.metrics.maxDrawdownReduction =
              DrawdownAgainst(Scored.hedged, Scored.unhedged)
        /\ FGe(Scored.metrics.volatilityReduction, FInt(0))
        /\ FGe(Scored.metrics.maxDrawdownReduction, FInt(0))

\* C19, amended: at every candidate, volatilityReduction and
\* maxDrawdownReduction compare the candidate's hedged sequence against the
\* unhedged sequence of the simulation made once before the sweep, the same
\* for all candidates, each floored at 0; the unhedged sequence of the
\* candidate's own simulation is what the count of wins compares with.
C19_ReductionsAgainstBaseline ==
    JustScored =>
        /\ Scored.metrics.volatilityReduction =
              VolatilityAgainst(Scored.hedged, opt.unhedgedResults, opt.args.runs)
        /\ Scored.metrics.maxDrawdownReduction =
              DrawdownAgainst(Scored.hedged, opt.unhedgedResults)
        /\ FGe(Scored.metrics.volatilityReduction, FInt(0))
        /\ FGe(Scored.metrics.maxDrawdownReduction, FInt(0))
        /\ Scored.metrics.winPercentage =
              FMul(FDiv(FInt(Cardinality({t \in 1..opt.args.runs :
                                   FGt(Scored.hedged[t], Scored.unhedged[t])})),
                        FInt(opt.args.runs)), FInt(100))

\* a candidate whose own unhedged totals show no spread while those of the
\* baseline do: its reductions are positive, measured against its own
\* unhedged totals they would be 0
C19_Witness ==
    \E j \in 1..Len(Candidates) :
        /\ Candidates[j].unhedged # opt.unhedgedResults
        /\ FGt(Candidates[j].metrics.volatilityReduction, FInt(0))
        /\ FGt(Candidates[j].metrics.maxDrawdownReduction, FInt(0))
        /\ FEq(VolatilityAgainst(Candidates[j].hedged, Candidates[j].unhedged, opt.args.runs),
               FInt(0))
        /\ FEq(DrawdownAgainst(Candidates[j].hedged, Candidates[j].unhedged), FInt(0))

\* Math.random() calls counted at the return of each simulation the optimizer
\* has called so far
Calls == IF opt.pc = "none" THEN <<>> ELSE opt.calls

\* the draws of the j-th simulation the optimizer called
DrawsOfCall(j) == Calls[j] - (IF j = 1 THEN 0 ELSE Calls[j - 1])

\* months * runs of the optimizer's call
DrawsPerSimulation == FToInt(opt.args.months) * opt.args.runs

\* C20 as stated: one runComparisonSimulation call makes exactly
\* months * runs uniform random draws, and one findOptimalHedgeRatio call
\* exactly months * runs * (steps + 1).
C20_Original ==
    /\ \A j \in 1..Len(Calls) : DrawsOfCall(j) = DrawsPerSimulation
    /\ OptReturned => draws = DrawsPerSimulation * (args.steps + 1)

\* C20, amended: one runComparisonSimulation call makes exactly
\* months * runs uniform random draws, and one findOptimalHedgeRatio call that
\* returns makes exactly months * runs * (steps + 2): it calls the simulation
\* once before the sweep and once for each of the steps + 1 candidates.
C20_DrawsPerCall ==
    /\ \A j \in 1..Len(Calls) : DrawsOfCall(j) = DrawsPerSimulation
    /\ OptReturned =>
          /\ Len(Calls) = args.steps + 2
          /\ draws = DrawsPerSimulation * (args.steps + 2)

\* a returned call with 1 month, 2 runs and 2 steps: 8 draws, not 6
C20_Witness ==
    /\ OptReturned
    /\ args.steps = 2
    /\ args.runs = 2
    /\ FEq(args.months, FInt(1))
    /\ draws = 8

\* C23: for every candidate of findOptimalHedgeRatio, riskScore =
\* 0.70 * worstCaseImprovementPercent + 0.20 * volatilityReduction +
\* 0.10 * maxDrawdownReduction, where worstCaseImprovementPercent is
\* worstCaseImprovement / |baseline worstCase10| * 100, and 0 when the
\* baseline worstCase10 is 0, and worstCaseImprovement is the candidate's
\* hedged worstCase10 minus the worstCase10 of the baseline computed once
\* before the sweep.
C23_RiskScoreWeights ==
    JustScored =>
      \E base \in {opt.unhedgedStats.worstCase10} :
        \E pct \in {IF FEq(base, FInt(0))
                    THEN FInt(0)
                    ELSE FMul(FDiv(Scored.metrics.worstCaseImprovement, FAbs(base)),
                              FInt(100))} :
          /\ Scored.metrics.worstCaseImprovement =
                FSub(percentile(Scored.hedged, FInt(10)), base)
          /\ Scored.metrics.riskScore =
                FAdd(FAdd(FMul(pct, Dec(7, 10)),
                          FMul(Scored.metrics.volatilityReduction, Dec(2, 10))),
                     FMul(Scored.metrics.maxDrawdownReduction, Dec(1, 10)))

\* a candidate worse than a baseline whose 10th percentile is 0: its score
\* is 0, not a quotient by 0
C23_Witness ==
    /\ JustScored
    /\ FEq(opt.unhedgedStats.worstCase10, FInt(0))
    /\ FLt(Scored.metrics.worstCaseImprovement, FInt(0))
    /\ FEq(Scored.metrics.riskScore, FInt(0))

\* C24: for every candidate of findOptimalHedgeRatio, sharpeRatio is 0
\* whenever the hedged standard deviation does not exceed 0.01, and otherwise
\* (hedged mean - unhedged mean) / hedged standard deviation; so the
\* sharpeRatio of the returned candidate is finite.
C24_SharpeGuarded ==
    /\ JustScored =>
          \E hedgedStdDev \in {StdDevOf(Scored.hedged, opt.args.runs)} :
             IF FLe(hedgedStdDev, Dec(1, 100))
             THEN FEq(Scored.metrics.sharpeRatio, FInt(0))
             ELSE Scored.metrics.sharpeRatio =
                     FDiv(FSub(MeanOf(Scored.hedged), MeanOf(opt.unhedgedResults)),
                          hedgedStdDev)
    /\ OptReturned => IsFinite(ret.value.sharpeRatio)

\* a finished sweep with a candidate whose hedged totals spread, its
\* sharpeRatio a quotient other than 0, and a candidate without spread, its
\* sharpeRatio 0; the returned one has replaced the initial -Infinity
C24_Witness ==
    /\ OptReturned
    /\ IsFinite(ret.value.sharpeRatio)
    /\ \E j \in 1..Len(Candidates) :
          /\ FGt(StdDevOf(Candidates[j].hedged, args.runs), Dec(1, 100))
          /\ ~FEq(Candidates[j].metrics.sharpeRatio, FInt(0))
    /\ \E j \in 1..Len(Candidates) :
          /\ FEq(StdDevOf(Candidates[j].hedged, args.runs), FInt(0))
          /\ FEq(Candidates[j].metrics.sharpeRatio, FInt(0))

\* C28: with positive integer steps, runs and months, whatever the draws
\* were, the volatilityReduction and the maxDrawdownReduction that
\* findOptimalHedgeRatio returns each lie in [0, 100]. (So do those of every
\* candidate.)
C28_ReductionsInRange ==
    /\ \A j \in 1..Len(Candidates) :
          /\ FGe(Candidates[j].metrics.volatilityReduction, FInt(0))
          /\ FLe(Candidates[j].metrics.volatilityReduction, FInt(100))
          /\ FGe(Candidates[j].metrics.maxDrawdownReduction, FInt(0))
          /\ FLe(Candidates[j].metrics.maxDrawdownReduction, FInt(100))
    /\ (OptReturned /\ args.steps >= 1 /\ args.runs >= 1 /\ FGe(args.months, FInt(1)))
          => /\ FGe(ret.value.volatilityReduction, FInt(0))
             /\ FLe(ret.value.volatilityReduction, FInt(100))
             /\ FGe(ret.value.maxDrawdownReduction, FInt(0))
             /\ FLe(ret.value.maxDrawdownReduction, FInt(100))

\* a candidate whose hedged totals spread more than the baseline's unhedged
\* totals, its reductions floored at 0, in a sweep that returns positive
\* reductions
C28_Witness ==
    /\ OptReturned
    /\ FGt(ret.value.volatilityReduction, FInt(0))
    /\ FGt(ret.value.maxDrawdownReduction, FInt(0))
    /\ \E j \in 1..Len(Candidates) :
          /\ FGt(RangeOf(Candidates[j].hedged), RangeOf(opt.unhedgedResults))
          /\ FEq(Candidates[j].metrics.maxDrawdownReduction, FInt(0))
          /\ FEq(Candidates[j].metrics.volatilityReduction, FInt(0))

\* hedgedOutcomeIfEventTrue - hedgedOutcomeIfEventFalse of the returned record
OutcomeGap == FSub(ret.value.hedgedOutcomeIfEventTrue, ret.value.hedgedOutcomeIfEventFalse)

\* -(adverse - baseline) * (1 - hedgeRatio) of the call
OpenExposure ==
    FMul(FNeg(FSub(args.adverseExpense, args.baselineExpense)),
         FSub(FInt(1), args.hedgeRatio))

\* C25 as stated: for hedgeRatio = 1 and feeRate # 1, calculateHedging returns
\* hedgedOutcomeIfEventTrue equal to hedgedOutcomeIfEventFalse, both
\* -baseline - premium; in general hedgedOutcomeIfEventTrue -
\* hedgedOutcomeIfEventFalse = -(adverse - baseline) * (1 - hedgeRatio).
C25_Original ==
    (Returned("calculateHedging") /\ ~FEq(args.feeRate, FInt(1))) =>
        /\ FEq(args.hedgeRatio, FInt(1)) =>
              /\ FEq(ret.value.hedgedOutcomeIfEventTrue, ret.value.hedgedOutcomeIfEventFalse)
              /\ FEq(ret.value.hedgedOutcomeIfEventTrue,
                     FSub(FNeg(args.baselineExpense), ret.value.premium))
        /\ FEq(OutcomeGap, OpenExposure)

\* 2^-49, eight units in the last place of 1
RoundingSlack == FMul(Dec(1, 16777216), Dec(1, 33554432))

\* the rounding allowed on the outcomes of a call: 2^-49 of the magnitudes
\* that enter them
OutcomeTolerance ==
    FMul(RoundingSlack,
         FAdd(FAdd(FAbs(args.baselineExpense), FAbs(args.adverseExpense)),
              FAbs(ret.value.premium)))

\* C25, amended: for hedgeRatio in [0, 1] and feeRate # 1,
\* hedgedOutcomeIfEventFalse is -baseline - premium, and
\* hedgedOutcomeIfEventTrue - hedgedOutcomeIfEventFalse differs from
\* -(adverse - baseline) * (1 - hedgeRatio) by no more than rounding, at most
\* 2^-49 * (|baseline| + |adverse| + |premium|); so at hedgeRatio = 1 the two
\* hedged outcomes agree within that tolerance, without being equal in
\* every case.
C25_GapWithinRounding ==
    (Returned("calculateHedging") /\ ~FEq(args.feeRate, FInt(1))) =>
        /\ ret.value.hedgedOutcomeIfEventFalse =
              FSub(FNeg(args.baselineExpense), ret.value.premium)
        /\ FLe(FAbs(FSub(OutcomeGap, OpenExposure)), OutcomeTolerance)
        /\ FEq(args.hedgeRatio, FInt(1)) =>
              FLe(FAbs(OutcomeGap), OutcomeTolerance)

\* calculateHedging(100, 120, 1, 0.5, 0.02): a full hedge whose two hedged
\* outcomes are one unit in the last place apart
C25_Witness ==
    /\ Returned("calculateHedging")
    /\ args = [baselineExpense |-> FInt(100), adverseExpense |-> FInt(120),
               hedgeRatio |-> FInt(1), yesPrice |-> Dec(1, 2), feeRate |-> Dec(2, 100)]
    /\ FLt(ret.value.hedgedOutcomeIfEventTrue, ret.value.hedgedOutcomeIfEventFalse)
    /\ FLe(FAbs(OutcomeGap), OutcomeTolerance)

\* C30: for every non-empty sample and every p <= q in [0, 100],
\* min(samples) <= percentile(samples, p) <= percentile(samples, q) <=
\* max(samples); hence calculateStats returns worstCase10 <= median, and its
\* mean lies between the minimum and the maximum too.
C30_PercentilesOrdered ==
    /\ (Returned("percentile") /\ args.arr # <<>>) =>
          /\ \A x \in Elements(args.arr) : FLe(x, ret.value) \/ \E y \in Elements(args.arr) : FLt(y, x)
          /\ \A x \in Elements(args.arr) : FGe(x, ret.value) \/ \E y \in Elements(args.arr) : FGt(y, x)
          /\ \A q \in Percentiles :
                FLe(args.p, q) => FLe(ret.value, percentile(args.arr, q))
    /\ Returned("calculateStats") =>
          /\ FLe(ret.value.worstCase10, ret.value.median)
          /\ \E x \in Elements(args.results) : FLe(x, ret.value.mean)
          /\ \E x \in Elements(args.results) : FGe(x, ret.value.mean)

\* findOptimalEmotionalHedgeRatio has returned
EmoReturned == op = FindOptimalEmotional /\ pc = "done"

\* the decimal ratio 0.1 + 0.05 * (j - 1) of the j-th candidate
EmoDecimalRatio(j) == Dec(10 + 5 * (j - 1), 100)

\* C21: findOptimalEmotionalHedgeRatio sweeps the candidate ratios 0.1, 0.15,
\* 0.2, ..., 1.0 in increments of 0.05, 19 candidates, so the ratio 1.0 is
\* evaluated and can be returned as optimalRatio.
C21_SweepReachesOne ==
    EmoReturned =>
        /\ Len(opt.ratios) = 19
        /\ \A j \in 1..Len(opt.ratios) :
              FLe(FAbs(FSub(opt.ratios[j], EmoDecimalRatio(j))), Dec(1, 1000000))
        /\ \E j \in 1..Len(opt.ratios) : FEq(opt.ratios[j], FInt(1))

\* C22: in findOptimalEmotionalHedgeRatio, if all candidates produce identical
\* scores (as with desiredConsolation = 0, or with every draw falling on the
\* same side), the first swept candidate, of ratio 0.1, is returned as
\* optimalRatio together with that candidate's score.
C22_FirstCandidateOnEqualScores ==
    (EmoReturned /\ opt.sameScores) =>
        /\ ret.value.optimalRatio = opt.ratios[1]
        /\ FEq(ret.value.optimalRatio, Dec(1, 10))
        /\ ret.value.riskScore = opt.firstScore

\* C26: the fee rate that the page passes to the simulation equals the form's
\* feeRate percentage divided by 100 for every form value in [0,100),
\* including 0, and is therefore the fee rate that the optimize button passes
\* to findOptimalHedgeRatio for the same form values.
C26_PageFeeRate ==
    (/\ formData # Null
     /\ FGe(formData.feeRate, FInt(0))
     /\ FLt(formData.feeRate, FInt(100))) =>
        /\ FEq(HomeArguments(formData).feeRate, FDiv(formData.feeRate, FInt(100)))
        /\ FEq(HomeArguments(formData).feeRate, OptimizerCall(formData).args.feeRate)

\* the constraints on the inputs of useSimulation
Constraints(a) ==
    /\ FGt(a.baselineExpense, FInt(0))
    /\ FGt(a.adverseExpense, FInt(0))
    /\ a.hedgeMode = "expense" => FGt(a.adverseExpense, a.baselineExpense)
    /\ FGt(a.yesPrice, FInt(0)) /\ FLt(a.yesPrice, FInt(1))
    /\ FGt(a.months, FInt(0))

\* C27: useSimulation returns a non-null result for every hedgeRatio in the
\* closed interval [0,1], including 0, whenever baseline > 0, adverse > 0 (and
\* adverse > baseline in expense mode), 0 < yesPrice < 1 and months > 0; it
\* returns null only when one of those constraints is violated.
C27_NullOnlyWhenInvalid ==
    \A a \in {HomeArguments(formData)} :
        (FGe(a.hedgeRatio, FInt(0)) /\ FLe(a.hedgeRatio, FInt(1))) =>
            (simulationResults = Null <=> ~Constraints(a))

\* the click on the optimize button whose input checks fail
FailedClick ==
    /\ ClickOptimize
    /\ OptimizeAlert([formValues EXCEPT !.monthsToHedge = Or(@, FInt(1))], hedgeMode) # ""

\* the click on the optimize button whose input checks pass
PassedClick ==
    /\ ClickOptimize
    /\ OptimizeAlert([formValues EXCEPT !.monthsToHedge = Or(@, FInt(1))], hedgeMode) = ""

\* the alert of a scheduled optimization is open
AlertOpen ==
    callback # NoFrame

\* C29, as stated: in the optimize flow of ExpenseForm, once a click passes
\* the input checks and sets isOptimizing to true, isOptimizing is eventually
\* reset to false after the scheduled optimization runs, whether the
\* optimizer returns or throws; a click that fails the input checks leaves
\* isOptimizing false and schedules no optimization.
C29_Original ==
    /\ isOptimizing ~> ~isOptimizing
    /\ [][PassedClick => (isOptimizing' /\ Len(timeouts') = Len(timeouts) + 1)]_vars
    /\ [][FailedClick => (~isOptimizing' /\ timeouts' = timeouts)]_vars

\* C29, amended: a click that passes the input checks sets isOptimizing to
\* true and schedules the optimization. The scheduled optimization then runs
\* and, whether the optimizer returns or throws, shows an alert; isOptimizing
\* is still true while that alert is open, and it is reset to false by the
\* step that closes the alert, not before: it is true exactly while an
\* optimization is scheduled or its alert is open. A click that fails the
\* input checks leaves isOptimizing false and schedules no optimization.
C29_OptimizingIsReset ==
    /\ (isOptimizing /\ ~AlertOpen) ~> (isOptimizing /\ AlertOpen)
    /\ [][Dismiss => (isOptimizing /\ ~isOptimizing')]_vars
    /\ [][isOptimizing /\ ~isOptimizing' => Dismiss]_vars
    /\ [](isOptimizing <=> (timeouts # <<>> \/ AlertOpen))
    /\ [][PassedClick => (isOptimizing' /\ Len(timeouts') = Len(timeouts) + 1)]_vars
    /\ [][FailedClick => (~isOptimizing' /\ timeouts' = timeouts)]_vars

\* an optimization that returned the ratio 0.25 has had its alert closed, and
\* isOptimizing is false again
C29_Witness ==
    /\ alerted = ResultMessage("expense")
    /\ FEq(formValues.hedgeCoverage, FInt(25))
    /\ ~AlertOpen
    /\ ~isOptimizing
    /\ timeouts = <<>>

====
